---- MODULE Spec2Model ----
(***************************************************************************)
(* Topology resolver of GElectrical: PandaPowerModel.setup_base_model and  *)
(* PandaPowerModel.combine_connected_nodes                                 *)
(* (src/gelectrical/model/pandapower.py).                                  *)
(*                                                                         *)
(* A drawing list is a sequence of drawings, a drawing a sequence of       *)
(* elements, an element the sequence of port lists its get_nodes reports   *)
(* (one port list per local node), a port a 2-tuple (x, y) of the same     *)
(* page or a 3-tuple (page, x, y).  Python indices are kept 0-based in the *)
(* data (k1, k2, global node numbers); TLA+ sequences are 1-based.         *)
(*                                                                         *)
(* Protection curve engine of GElectrical: ProtectionModel                  *)
(* (src/gelectrical/model/protection.py): the curve function library, the  *)
(* curve evaluator eval_curve, evaluate_curves with its geometry, and      *)
(* update_graph / get_evaluated_model.                                     *)
(***************************************************************************)
EXTENDS Integers, Sequences, FiniteSets, TLC

VARIABLES drawing_models,            \* self.drawing_models
          port_mapping,              \* self.port_mapping: port key -> global node
          node_mapping,              \* self.node_mapping: local node -> global node
          global_nodes,              \* self.global_nodes
          virtual_global_nodes,      \* self.virtual_global_nodes
          duplicate_ports_list,      \* local of the last call: groups given to the unifier
          duplicate_ports_list_comb, \* local of the last call: classes the unifier returned
          pass2_nodes,               \* what get_nodes reported to the last loop of the last call
          outcome,                   \* "new", "done", or the exception that ended the last call
          history                    \* "new", "resolved", "repeated", "edited", "rebuilt"

VARIABLES title,                     \* self.title of the ProtectionModel
          data_struct,               \* self.data_struct: type, parameters, data, graph_model
          curve_upper,               \* self.curve_upper: sequence of (i, t) points
          curve_lower,               \* self.curve_lower
          linestring_upper,          \* self.linestring_upper: coordinates of the LineString
          linestring_lower,          \* self.linestring_lower
          polygon,                   \* self.polygon: coordinates of the exterior ring
          written,                   \* per generated field, the call that assigned it (0: None)
          call                       \* the last evaluation call: number, arguments, outcome

pvars == <<title, data_struct, curve_upper, curve_lower, linestring_upper,
           linestring_lower, polygon, written, call>>

VARIABLES held,                      \* the structure the last get_evaluated_model returned,
                                     \* as its caller holds it
          returns,                   \* the structures returned so far, with the arguments
          update,                    \* the last update_parameters: argument, parameters before
          built                      \* the last new_from_data: argument, outcome, new model

lvars == <<held, returns, update, built>>

VARIABLES elementcodes,              \* per element of drawing_models, the element code of
                                     \* its power model ("" when it has none)
          power_model,               \* self.power_model: the tables of the network
          power_nodes,               \* self.power_nodes: global node -> bus
          power_nodes_inverted,      \* self.power_nodes_inverted: bus -> global node
          power_elements,            \* self.power_elements: (k1, k2) -> (code, index)
          power_elements_inverted,   \* self.power_elements_inverted
          voltage_updated_from,      \* local of the last build: node -> sources that reached it
          node_results,              \* self.node_results: global node -> vn_kv
          build                      \* the last build_power_model: outcome, what get_node left
                                     \* each time, the voltages set_voltage wrote

bvars == <<elementcodes, power_model, power_nodes, power_nodes_inverted, power_elements,
           power_elements_inverted, voltage_updated_from, node_results, build>>

vars == <<drawing_models, port_mapping, node_mapping, global_nodes,
          virtual_global_nodes, duplicate_ports_list, duplicate_ports_list_comb,
          pass2_nodes, outcome, history, pvars, lvars, bvars>>

----------------------------------------------------------------------------
(* Bounds of the input space *)

MaxPages == 2

MaxElems == 2

MaxNodes == 2

MaxPorts == 3

MaxPortRefs == 4

MaxX == 1

----------------------------------------------------------------------------
(* Generic helpers *)

EmptyMap == [x \in {} |-> 0]

Put(m, k, v) == [x \in (DOMAIN m) \cup {k} |-> IF x = k THEN v ELSE m[x]]

Range(m) == {m[x] : x \in DOMAIN m}

SeqsUpTo(S, n) == UNION {[1..m -> S] : m \in 0..n}

RECURSIVE SumLen(_)
SumLen(ss) == IF ss = <<>> THEN 0 ELSE Len(Head(ss)) + SumLen(Tail(ss))

RECURSIVE Concat(_)
Concat(ss) == IF ss = <<>> THEN <<>> ELSE Head(ss) \o Concat(Tail(ss))

----------------------------------------------------------------------------
(* The drawings the model is constructed on *)

PortLiterals == {<<x, 0>> : x \in 0..MaxX} \cup {<<k, 0, 0>> : k \in 1..(MaxPages - 1)}

PortLists == SeqsUpTo(PortLiterals, MaxPorts)

NodeLists == {gs \in SeqsUpTo(PortLists, MaxNodes) : SumLen(gs) <= MaxPortRefs}

Cuts(n, m) == {c \in [1..m -> 0..n] :
                 /\ \A i \in 1..(m - 1) : c[i] <= c[i + 1]
                 /\ (m = 0 => n = 0)
                 /\ (m > 0 => c[m] = n)}

Chunk(s, c, i) == SubSeq(s, (IF i = 1 THEN 0 ELSE c[i - 1]) + 1, c[i])

Split(s, c) == [i \in DOMAIN c |-> Chunk(s, c, i)]

ElementLists == UNION {{Split(gs, c) : c \in Cuts(Len(gs), m)} :
                          gs \in NodeLists, m \in 0..MaxElems}

DrawingSet == UNION {{Split(es, c) : c \in Cuts(Len(es), p)} :
                        es \in ElementLists, p \in 1..MaxPages}

----------------------------------------------------------------------------
(* Element interface: get_nodes(code) yields one (local node, port list)  *)
(* pair per local node of the element; the local node id is scoped to the *)
(* element through its code "k1,k2".                                      *)

get_nodes(element, k1, k2) ==
    [j \in DOMAIN element |-> <<(<<k1, k2, j - 1>>), element[j]>>]

(* The nested loops "for k1, drawing_model / for k2, element / for (p0,   *)
(* ports) in nodes" as the sequence of visited (k1, p0, ports) in order.  *)

(* Variant: an element without port groups is scanned as one local node   *)
(* with an empty port list                                                *)
ScanElementDefaultNode(element, k1, k2) ==
    LET nodes == IF element = <<>> THEN get_nodes(<< <<>> >>, k1, k2)
                 ELSE get_nodes(element, k1, k2)
    IN  [j \in DOMAIN nodes |-> [k1 |-> k1, p0 |-> nodes[j][1], ports |-> nodes[j][2]]]

ScanElement(element, k1, k2) ==
    LET nodes == get_nodes(element, k1, k2)
    IN  [j \in DOMAIN nodes |-> [k1 |-> k1, p0 |-> nodes[j][1], ports |-> nodes[j][2]]]

ScanDrawing(drawing, k1) ==
    Concat([k2 \in DOMAIN drawing |-> ScanElement(drawing[k2], k1, k2 - 1)])

Scan(drawings) ==
    Concat([k1 \in DOMAIN drawings |-> ScanDrawing(drawings[k1], k1 - 1)])

(* Variant: a same-page port is used as a key without its page number *)
MapPortNoPage(k1, port) == port

(* Port in global coordinates *)
MapPort(k1, port) == IF Len(port) = 2 THEN <<k1>> \o port ELSE port

MapPorts(k1, ports) == {MapPort(k1, ports[i]) : i \in DOMAIN ports}

----------------------------------------------------------------------------
(* Iteration order of a Python set: any order of its members.  An order   *)
(* is a ranking of the port keys; a set is iterated by ascending rank.    *)

Rankings(S) == {r \in [S -> 1..Cardinality(S)] : \A a, b \in S : a # b => r[a] # r[b]}

RECURSIVE SetIter(_, _)
SetIter(S, rank) ==
    IF S = {} THEN <<>>
    ELSE LET first == CHOOSE a \in S : \A b \in S : rank[a] <= rank[b]
         IN  <<first>> \o SetIter(S \ {first}, rank)

----------------------------------------------------------------------------
(* combine_connected_nodes *)

to_edges(ports) == {<<ports[i], ports[i + 1]>> : i \in 1..(Len(ports) - 1)}

(* G.add_nodes_from: nodes keep their first insertion position *)
RECURSIVE add_nodes_from(_, _)
add_nodes_from(nodes, part) ==
    IF part = <<>> THEN nodes
    ELSE add_nodes_from(IF \E i \in DOMAIN nodes : nodes[i] = Head(part)
                        THEN nodes ELSE Append(nodes, Head(part)),
                        Tail(part))

(* Variant: the nodes of all groups are collected in one set first and    *)
(* enter the graph in the iteration order of that set                     *)
BuildGraphFromUnion(G, duplicate_list, rank) ==
    LET parts == {duplicate_list[i] : i \in DOMAIN duplicate_list}
    IN  [nodes |-> add_nodes_from(G.nodes, SetIter(UNION parts, rank)),
         edges |-> G.edges \cup UNION {to_edges(SetIter(part, rank)) : part \in parts}]

RECURSIVE BuildGraph(_, _, _)
BuildGraph(G, duplicate_list, rank) ==
    IF duplicate_list = <<>> THEN G
    ELSE LET part == SetIter(Head(duplicate_list), rank)
         IN  BuildGraph([nodes |-> add_nodes_from(G.nodes, part),
                         edges |-> G.edges \cup to_edges(part)],
                        Tail(duplicate_list), rank)

Adjacent(G, S) == {e[2] : e \in {d \in G.edges : d[1] \in S}}
                    \cup {e[1] : e \in {d \in G.edges : d[2] \in S}}

(* Variant: only the direct neighbours of the start node are collected *)
plain_bfs_shallow(G, seen) == seen \cup Adjacent(G, seen)

RECURSIVE plain_bfs(_, _)
plain_bfs(G, seen) ==
    LET next == seen \cup Adjacent(G, seen)
    IN  IF next = seen THEN seen ELSE plain_bfs(G, next)

(* Variant: the components come out last-found first *)
RECURSIVE connected_components_reversed(_, _, _)
connected_components_reversed(G, i, seen) ==
    IF i > Len(G.nodes) THEN <<>>
    ELSE IF G.nodes[i] \in seen THEN connected_components_reversed(G, i + 1, seen)
    ELSE LET c == plain_bfs(G, {G.nodes[i]})
         IN  connected_components_reversed(G, i + 1, seen \cup c) \o <<c>>

(* connected_components: for v in G, if v is not seen yet, yield its      *)
(* component                                                              *)
RECURSIVE connected_components(_, _, _)
connected_components(G, i, seen) ==
    IF i > Len(G.nodes) THEN <<>>
    ELSE IF G.nodes[i] \in seen THEN connected_components(G, i + 1, seen)
    ELSE LET c == plain_bfs(G, {G.nodes[i]})
         IN  <<c>> \o connected_components(G, i + 1, seen \cup c)

combine_connected_nodes(duplicate_list, rank) ==
    connected_components(BuildGraph([nodes |-> <<>>, edges |-> {}], duplicate_list, rank),
                         1, {})

----------------------------------------------------------------------------
(* setup_base_model *)

Running == "running"

(* Variant: port_mapping is not cleared at the start of the call *)
ResetKeepPorts(self) ==
    [port_mapping |-> self.port_mapping, node_mapping |-> EmptyMap,
     global_nodes |-> {}, virtual_global_nodes |-> {}]

Reset(self) ==
    [port_mapping |-> EmptyMap, node_mapping |-> EmptyMap,
     global_nodes |-> {}, virtual_global_nodes |-> {}]

(* for port in ports: self.port_mapping[map_port] = gnode *)
RECURSIVE RegisterPorts(_, _, _, _)
RegisterPorts(pm, k1, ports, gnode) ==
    IF ports = <<>> THEN pm
    ELSE RegisterPorts(Put(pm, MapPort(k1, Head(ports)), gnode), k1, Tail(ports), gnode)

(* Variant: a port list is registered as a duplicate group only when it   *)
(* has more than two ports                                                *)
Pass1NodeTwoPorts(st, node) ==
    LET gnode == st.cur_gnode_num
    IN  IF node.ports # <<>>
        THEN [st EXCEPT !.port_mapping = RegisterPorts(@, node.k1, node.ports, gnode),
                        !.duplicate_ports_list =
                            IF Len(node.ports) > 2
                            THEN Append(@, MapPorts(node.k1, node.ports)) ELSE @,
                        !.cur_gnode_num = @ + 1]
        ELSE [st EXCEPT !.virtual_global_nodes = @ \cup {gnode},
                        !.cur_gnode_num = @ + 1]

(* Variant: the allocation counter advances only for a non-empty port list *)
Pass1NodeVirtualShared(st, node) ==
    LET gnode == st.cur_gnode_num
    IN  IF node.ports # <<>>
        THEN [st EXCEPT !.port_mapping = RegisterPorts(@, node.k1, node.ports, gnode),
                        !.duplicate_ports_list =
                            IF Len(node.ports) > 1
                            THEN Append(@, MapPorts(node.k1, node.ports)) ELSE @,
                        !.cur_gnode_num = @ + 1]
        ELSE [st EXCEPT !.virtual_global_nodes = @ \cup {gnode}]

(* Variant: the inner loop stops after the first port of the list *)
Pass1NodeFirstPort(st, node) ==
    LET gnode == st.cur_gnode_num
        first == SubSeq(node.ports, 1, 1)
    IN  IF node.ports # <<>>
        THEN [st EXCEPT !.port_mapping = RegisterPorts(@, node.k1, first, gnode),
                        !.duplicate_ports_list =
                            IF Len(node.ports) > 1
                            THEN Append(@, MapPorts(node.k1, first)) ELSE @,
                        !.cur_gnode_num = @ + 1]
        ELSE [st EXCEPT !.virtual_global_nodes = @ \cup {gnode},
                        !.cur_gnode_num = @ + 1]

(* Body of the first loop for one (p0, ports) *)
Pass1Node(st, node) ==
    LET gnode == st.cur_gnode_num
    IN  IF node.ports # <<>>
        THEN [st EXCEPT !.port_mapping = RegisterPorts(@, node.k1, node.ports, gnode),
                        !.duplicate_ports_list =
                            IF Len(node.ports) > 1
                            THEN Append(@, MapPorts(node.k1, node.ports)) ELSE @,
                        !.cur_gnode_num = @ + 1]
        ELSE [st EXCEPT !.virtual_global_nodes = @ \cup {gnode},
                        !.cur_gnode_num = @ + 1]

RECURSIVE Pass1(_, _)
Pass1(st, scan) ==
    IF scan = <<>> THEN st ELSE Pass1(Pass1Node(st, Head(scan)), Tail(scan))

(* Variant: the allocation counter does not advance between classes *)
RECURSIVE FilterDuplicatesSameId(_, _)
FilterDuplicatesSameId(st, comb) ==
    IF comb = <<>> THEN st
    ELSE LET gnode == st.cur_gnode_num
             duplicate_ports == Head(comb)
         IN  FilterDuplicatesSameId(
                 [st EXCEPT !.port_mapping =
                                [x \in (DOMAIN @) \cup duplicate_ports |->
                                    IF x \in duplicate_ports THEN gnode ELSE @[x]]],
                 Tail(comb))

(* Variant: the tentative bindings of pass 1 are left as they are *)
RECURSIVE FilterDuplicatesKeep(_, _)
FilterDuplicatesKeep(st, comb) ==
    IF comb = <<>> THEN st
    ELSE FilterDuplicatesKeep([st EXCEPT !.cur_gnode_num = @ + 1], Tail(comb))

(* Filter duplicates in self.port_mapping *)
RECURSIVE FilterDuplicates(_, _)
FilterDuplicates(st, comb) ==
    IF comb = <<>> THEN st
    ELSE LET gnode == st.cur_gnode_num
             duplicate_ports == Head(comb)
         IN  FilterDuplicates(
                 [st EXCEPT !.port_mapping =
                                [x \in (DOMAIN @) \cup duplicate_ports |->
                                    IF x \in duplicate_ports THEN gnode ELSE @[x]],
                            !.cur_gnode_num = @ + 1],
                 Tail(comb))

(* Variant: an unregistered key is given a fresh global node (setdefault) *)
Pass2NodeFresh(st, node) ==
    IF node.ports = <<>> THEN [st EXCEPT !.outcome = "IndexError"]
    ELSE LET map_port == MapPort(node.k1, node.ports[1])
             gnode == IF map_port \in DOMAIN st.port_mapping
                      THEN st.port_mapping[map_port] ELSE st.cur_gnode_num
         IN  [st EXCEPT !.global_nodes = @ \cup {gnode},
                        !.node_mapping = Put(@, node.p0, gnode),
                        !.cur_gnode_num = @ + 1]

(* Variant: a global node enters global_nodes only through a port list of  *)
(* one port                                                               *)
Pass2NodeSinglePort(st, node) ==
    IF node.ports = <<>> THEN [st EXCEPT !.outcome = "IndexError"]
    ELSE LET map_port == MapPort(node.k1, node.ports[1])
         IN  IF map_port \notin DOMAIN st.port_mapping
             THEN [st EXCEPT !.outcome = "KeyError"]
             ELSE LET gnode == st.port_mapping[map_port]
                  IN  [st EXCEPT !.global_nodes =
                                     IF Len(node.ports) = 1 THEN @ \cup {gnode} ELSE @,
                                 !.node_mapping = Put(@, node.p0, gnode)]

(* Body of the last loop for one (p0, ports): ports[0] of an empty port    *)
(* list raises IndexError, self.port_mapping[map_port] of an unregistered  *)
(* key raises KeyError; either ends the call where it stands.              *)
Pass2Node(st, node) ==
    IF node.ports = <<>> THEN [st EXCEPT !.outcome = "IndexError"]
    ELSE LET map_port == MapPort(node.k1, node.ports[1])
         IN  IF map_port \notin DOMAIN st.port_mapping
             THEN [st EXCEPT !.outcome = "KeyError"]
             ELSE LET gnode == st.port_mapping[map_port]
                  IN  [st EXCEPT !.global_nodes = @ \cup {gnode},
                                 !.node_mapping = Put(@, node.p0, gnode)]

RECURSIVE Pass2(_, _)
Pass2(st, scan) ==
    IF scan = <<>> THEN st
    ELSE LET nxt == Pass2Node(st, Head(scan))
         IN  IF nxt.outcome # Running THEN nxt ELSE Pass2(nxt, Tail(scan))

(* The whole call.  nodes1 and nodes2 are what the elements' get_nodes     *)
(* report to the first and to the last loop.                               *)
SetupBaseModel(self, nodes1, nodes2, rank) ==
    LET st0 == [port_mapping |-> Reset(self).port_mapping,
                node_mapping |-> Reset(self).node_mapping,
                global_nodes |-> Reset(self).global_nodes,
                virtual_global_nodes |-> Reset(self).virtual_global_nodes,
                duplicate_ports_list |-> <<>>,
                duplicate_ports_list_comb |-> <<>>,
                pass2_nodes |-> nodes2,
                cur_gnode_num |-> 0,
                outcome |-> Running]
        st1 == Pass1(st0, nodes1)
        comb == combine_connected_nodes(st1.duplicate_ports_list, rank)
        st2 == FilterDuplicates([st1 EXCEPT !.duplicate_ports_list_comb = comb], comb)
        st3 == Pass2(st2, nodes2)
    IN  IF st3.outcome = Running THEN [st3 EXCEPT !.outcome = "done"] ELSE st3

----------------------------------------------------------------------------
(* State machine *)

Self == [port_mapping |-> port_mapping, node_mapping |-> node_mapping,
         global_nodes |-> global_nodes, virtual_global_nodes |-> virtual_global_nodes]

DuplicateKeys(drawings) ==
    UNION {MapPorts(Scan(drawings)[i].k1, Scan(drawings)[i].ports) :
             i \in {j \in DOMAIN Scan(drawings) : Len(Scan(drawings)[j].ports) > 1}}

(* The generated fields of a ProtectionModel as __init__ leaves them: all  *)
(* None, written by call 0                                                *)
Unwritten ==
    [curve_upper |-> 0, curve_lower |-> 0, linestring_upper |-> 0,
     linestring_lower |-> 0, polygon |-> 0]

NoCall == [no |-> 0, op |-> "new", fields |-> EmptyMap, data_fields |-> EmptyMap,
           outcome |-> "new"]

(* The caller of get_evaluated_model holds no structure yet *)
NothingHeld == [has |-> FALSE, shared |-> FALSE]

NoUpdate == [has |-> FALSE]

NothingBuilt == [outcome |-> "new"]

NotEvaluated ==
    /\ curve_upper = <<>>
    /\ curve_lower = <<>>
    /\ linestring_upper = <<>>
    /\ linestring_lower = <<>>
    /\ polygon = <<>>
    /\ written = Unwritten
    /\ call = NoCall
    /\ held = NothingHeld
    /\ returns = <<>>
    /\ update = NoUpdate
    /\ built = NothingBuilt

(* A ProtectionModel without parameters and with empty curves *)
NoProtection ==
    /\ title = "R1"
    /\ data_struct = [type |-> "protection", parameters |-> EmptyMap,
                      data |-> [curve_u |-> <<>>, curve_l |-> <<>>],
                      graph_model |-> <<>>]
    /\ NotEvaluated

(* pp.create_empty_network(): every table is empty *)
create_empty_network ==
    [bus |-> <<>>, ext_grid |-> <<>>, gen |-> <<>>, trafo |-> <<>>, trafo3w |-> <<>>,
     line |-> <<>>]

NotBuilt == [outcome |-> "new", trace |-> <<>>, writes |-> EmptyMap]

(* The power variables as __init__ leaves them *)
PowerVariablesNew ==
    /\ power_model = create_empty_network
    /\ power_nodes = EmptyMap
    /\ power_nodes_inverted = EmptyMap
    /\ power_elements = EmptyMap
    /\ power_elements_inverted = EmptyMap
    /\ voltage_updated_from = EmptyMap
    /\ node_results = EmptyMap
    /\ build = NotBuilt

(* Elements without power models *)
NoPowerModel ==
    /\ elementcodes = [k1 \in DOMAIN drawing_models |->
                          [k2 \in DOMAIN drawing_models[k1] |-> ""]]
    /\ PowerVariablesNew

Init ==
    /\ NoProtection
    /\ drawing_models \in DrawingSet
    /\ NoPowerModel
    /\ port_mapping = EmptyMap
    /\ node_mapping = EmptyMap
    /\ global_nodes = {}
    /\ virtual_global_nodes = {}
    /\ duplicate_ports_list = <<>>
    /\ duplicate_ports_list_comb = <<>>
    /\ pass2_nodes = <<>>
    /\ outcome = "new"
    /\ history = "new"

Store(r) ==
    /\ port_mapping' = r.port_mapping
    /\ node_mapping' = r.node_mapping
    /\ global_nodes' = r.global_nodes
    /\ virtual_global_nodes' = r.virtual_global_nodes
    /\ duplicate_ports_list' = r.duplicate_ports_list
    /\ duplicate_ports_list_comb' = r.duplicate_ports_list_comb
    /\ pass2_nodes' = r.pass2_nodes
    /\ outcome' = r.outcome

AfterCall(h) ==
    CASE h = "new" -> "resolved"
      [] h = "edited" -> "rebuilt"
      [] OTHER -> "repeated"

setup_base_model ==
    /\ \E rank \in Rankings(DuplicateKeys(drawing_models)) :
          Store(SetupBaseModel(Self, Scan(drawing_models), Scan(drawing_models), rank))
    /\ history' = AfterCall(history)
    /\ UNCHANGED <<drawing_models, pvars, lvars, bvars>>

RemoveAt(s, i) == SubSeq(s, 1, i - 1) \o SubSeq(s, i + 1, Len(s))

(* The drawings change between calls: an element is deleted from a page *)
DeleteElement ==
    /\ \E k1 \in DOMAIN drawing_models : \E k2 \in DOMAIN drawing_models[k1] :
          /\ drawing_models' = [drawing_models EXCEPT ![k1] = RemoveAt(@, k2)]
          /\ elementcodes' = [elementcodes EXCEPT ![k1] = RemoveAt(@, k2)]
    /\ history' = IF history = "new" THEN "new" ELSE "edited"
    /\ UNCHANGED <<port_mapping, node_mapping, global_nodes, virtual_global_nodes,
                   duplicate_ports_list, duplicate_ports_list_comb, pass2_nodes, outcome,
                   pvars, lvars, power_model, power_nodes, power_nodes_inverted,
                   power_elements, power_elements_inverted, voltage_updated_from,
                   node_results, build>>

Next == setup_base_model \/ DeleteElement

Spec == Init /\ [][Next]_vars

(* The resolver against elements whose get_nodes is not stable: the last   *)
(* loop calls get_nodes again, and an element may report another port for  *)
(* one of its local nodes than it reported to the first loop (or the same  *)
(* port: the views include the drawings themselves).                       *)
Views(drawings) ==
    {[drawings EXCEPT ![k[1]][k[2]][k[3]][k[4]] = lit] :
        k \in {q \in (1..MaxPages) \X (1..MaxElems) \X (1..MaxNodes) \X (1..MaxPorts) :
                 /\ q[1] \in DOMAIN drawings
                 /\ q[2] \in DOMAIN drawings[q[1]]
                 /\ q[3] \in DOMAIN drawings[q[1]][q[2]]
                 /\ q[4] \in DOMAIN drawings[q[1]][q[2]][q[3]]},
        lit \in PortLiterals}

setup_base_model_unstable ==
    /\ history = "new"
    /\ \E view \in Views(drawing_models) :
          \E rank \in Rankings(DuplicateKeys(drawing_models)) :
             Store(SetupBaseModel(Self, Scan(drawing_models), Scan(view), rank))
    /\ history' = AfterCall(history)
    /\ UNCHANGED <<drawing_models, pvars, lvars, bvars>>

(* Drawing lists of one page, resolved once *)
InitUnstable == Init /\ Len(drawing_models) = 1

NextUnstable == setup_base_model_unstable

SpecUnstable == InitUnstable /\ [][NextUnstable]_vars

----------------------------------------------------------------------------
(* Vocabulary of the properties *)

SetOf(seq) == {seq[i] : i \in DOMAIN seq}

(* The results on the object belong to the present drawings *)
Current == history \in {"resolved", "repeated", "rebuilt"}

PortGroups(drawings) ==
    {MapPorts(Scan(drawings)[i].k1, Scan(drawings)[i].ports) : i \in DOMAIN Scan(drawings)}

MultiKeyGroups(drawings) ==
    {MapPorts(Scan(drawings)[i].k1, Scan(drawings)[i].ports) :
        i \in {j \in DOMAIN Scan(drawings) : Len(Scan(drawings)[j].ports) > 1}}

AllKeys(drawings) == UNION PortGroups(drawings)

LocalNodes(drawings) == {Scan(drawings)[i].p0 : i \in DOMAIN Scan(drawings)}

(* Keys reachable from S by a chain of groups, each sharing a key with the *)
(* keys reached so far                                                     *)
RECURSIVE GroupClosure(_, _)
GroupClosure(S, groups) ==
    LET T == S \cup UNION {g \in groups : g \cap S # {}}
    IN  IF T = S THEN S ELSE GroupClosure(T, groups)

Linked(a, b, groups) == b \in GroupClosure({a}, groups)

----------------------------------------------------------------------------
(* C1: the classes combine_connected_nodes returns are non-empty, pairwise *)
(* disjoint, cover exactly the keys of the duplicate groups it was given,  *)
(* and two keys are in one class iff a chain of groups sharing keys links  *)
(* them.                                                                   *)
C1_UnifierPartition ==
    outcome # "new" =>
        LET groups == SetOf(duplicate_ports_list)
            comb == duplicate_ports_list_comb
        IN  /\ \A i \in DOMAIN comb : comb[i] # {}
            /\ \A i, j \in DOMAIN comb : i # j => comb[i] \cap comb[j] = {}
            /\ UNION SetOf(comb) = UNION groups
            /\ \A a, b \in UNION groups :
                  (\E i \in DOMAIN comb : {a, b} \subseteq comb[i]) <=> Linked(a, b, groups)

(* Groups [A,B] and [B,C] were given and the single class {A,B,C} came back *)
C1_Witness ==
    /\ outcome = "done"
    /\ Len(duplicate_ports_list) = 2
    /\ Cardinality(duplicate_ports_list[1]) = 2
    /\ Cardinality(duplicate_ports_list[2]) = 2
    /\ Cardinality(duplicate_ports_list[1] \cap duplicate_ports_list[2]) = 1
    /\ duplicate_ports_list_comb = <<duplicate_ports_list[1] \cup duplicate_ports_list[2]>>

(* C2: after a completed call two distinct port keys have the same global  *)
(* node in port_mapping iff a chain of multi-key port groups links them.   *)
C2_PartitionCorrectness ==
    (Current /\ outcome = "done") =>
        \A a, b \in AllKeys(drawing_models) :
            a # b =>
                /\ a \in DOMAIN port_mapping
                /\ b \in DOMAIN port_mapping
                /\ (port_mapping[a] = port_mapping[b]
                      <=> Linked(a, b, MultiKeyGroups(drawing_models)))

(* A completed call with two linked keys and a third key outside their class *)
C2_Witness ==
    /\ Current
    /\ outcome = "done"
    /\ \E a, b, c \in DOMAIN port_mapping :
          /\ a # b
          /\ Linked(a, b, MultiKeyGroups(drawing_models))
          /\ ~Linked(a, c, MultiKeyGroups(drawing_models))
          /\ port_mapping[a] = port_mapping[b]
          /\ port_mapping[a] # port_mapping[c]

(* C3: after a call every local node the elements report, a local node     *)
(* with an empty port list included, is a key of node_mapping.             *)
C3_EveryLocalNodeMapped ==
    (Current /\ outcome # "new") =>
        \A p0 \in LocalNodes(drawing_models) : p0 \in DOMAIN node_mapping

(* C4: after a completed call every port key an element lists is a key of  *)
(* port_mapping, and a call that leaves a listed key unbound ended with    *)
(* the unbound-reference error (KeyError).                                 *)
C4_Coverage ==
    Current =>
        /\ outcome = "done" => AllKeys(drawing_models) \subseteq DOMAIN port_mapping
        /\ ~(AllKeys(drawing_models) \subseteq DOMAIN port_mapping) => outcome = "KeyError"
        /\ \A k \in DOMAIN port_mapping : port_mapping[k] \in Nat

(* A completed call over port groups that list three port keys in all *)
C4_Witness ==
    /\ Current
    /\ outcome = "done"
    /\ Cardinality(AllKeys(drawing_models)) >= 3
    /\ AllKeys(drawing_models) = DOMAIN port_mapping

(* C5: a call on drawings that did not change since the previous call      *)
(* leaves port_mapping, node_mapping and both node sets as they were,      *)
(* whatever order the duplicate-port sets are iterated in by either call.  *)
C5_Idempotence ==
    [][(Current /\ drawing_models' = drawing_models) =>
          /\ port_mapping' = port_mapping
          /\ node_mapping' = node_mapping
          /\ global_nodes' = global_nodes
          /\ virtual_global_nodes' = virtual_global_nodes]_vars

(* A second call on unchanged drawings that hold two merged classes *)
C5_Witness ==
    /\ history = "repeated"
    /\ outcome = "done"
    /\ Len(duplicate_ports_list_comb) = 2
    /\ Cardinality(Range(port_mapping)) = 2

(* The object as __init__ leaves it *)
InitSelf ==
    [port_mapping |-> EmptyMap, node_mapping |-> EmptyMap,
     global_nodes |-> {}, virtual_global_nodes |-> {}]

FreshResult(drawings) ==
    SetupBaseModel(InitSelf, Scan(drawings), Scan(drawings),
                   CHOOSE rank \in Rankings(DuplicateKeys(drawings)) : TRUE)

(* C6: after any sequence of calls and changes of the drawings, the four   *)
(* result fields are those of one call on a new object with the present    *)
(* drawings.                                                               *)
C6_RebuiltWholesale ==
    Current =>
        /\ port_mapping = FreshResult(drawing_models).port_mapping
        /\ node_mapping = FreshResult(drawing_models).node_mapping
        /\ global_nodes = FreshResult(drawing_models).global_nodes
        /\ virtual_global_nodes = FreshResult(drawing_models).virtual_global_nodes

(* A call after an element was deleted from drawings resolved before *)
C6_Witness ==
    /\ history = "rebuilt"
    /\ outcome = "done"
    /\ port_mapping # EmptyMap

(* C7: global node ids are unique: two merged classes, a merged class and  *)
(* an unmerged key, and a virtual node and a concrete node never share an  *)
(* id, and two local nodes share an id in node_mapping only if their port  *)
(* groups are linked by a chain of port groups sharing keys.               *)
C7_UniqueIds ==
    outcome # "new" =>
        LET comb == duplicate_ports_list_comb
            merged == UNION SetOf(comb)
            scan == Scan(drawing_models)
        IN  /\ \A i, j \in DOMAIN comb : i # j =>
                  \A a \in comb[i], b \in comb[j] : port_mapping[a] # port_mapping[b]
            /\ \A a \in merged, b \in (DOMAIN port_mapping) \ merged :
                  port_mapping[a] # port_mapping[b]
            /\ \A v \in virtual_global_nodes :
                  v \notin Range(port_mapping) /\ v \notin global_nodes
            /\ Current =>
                  /\ Cardinality(virtual_global_nodes)
                        = Cardinality({i \in DOMAIN scan : scan[i].ports = <<>>})
                  /\ \A i, j \in DOMAIN scan :
                        (/\ scan[i].p0 \in DOMAIN node_mapping
                         /\ scan[j].p0 \in DOMAIN node_mapping
                         /\ node_mapping[scan[i].p0] = node_mapping[scan[j].p0])
                        => \E a \in MapPorts(scan[i].k1, scan[i].ports),
                              b \in MapPorts(scan[j].k1, scan[j].ports) :
                                Linked(a, b, PortGroups(drawing_models))

(* A completed call with a merged class and an unmerged key, on two        *)
(* different global nodes                                                  *)
C7_Witness ==
    /\ Current
    /\ outcome = "done"
    /\ Len(duplicate_ports_list_comb) = 1
    /\ (DOMAIN port_mapping) \ UNION SetOf(duplicate_ports_list_comb) # {}
    /\ Cardinality(global_nodes) = 2

(* C8: no virtual global node is a value of port_mapping, and every        *)
(* duplicate group given to the unifier is the non-empty key set of a port *)
(* list with more than one port, all of its keys bound to non-virtual ids. *)
C8_VirtualIsolation ==
    outcome # "new" =>
        /\ virtual_global_nodes \cap Range(port_mapping) = {}
        /\ \A i \in DOMAIN duplicate_ports_list :
              /\ duplicate_ports_list[i] # {}
              /\ \A k \in duplicate_ports_list[i] :
                    k \in DOMAIN port_mapping /\ port_mapping[k] \notin virtual_global_nodes
              /\ Current => duplicate_ports_list[i] \in MultiKeyGroups(drawing_models)

(* A call that allocated a virtual node and registered a duplicate group *)
C8_Witness ==
    /\ outcome # "new"
    /\ virtual_global_nodes # {}
    /\ Len(duplicate_ports_list) >= 1
    /\ port_mapping # EmptyMap

(* Scan position at which a global node is first met *)
FirstSeen(x) ==
    LET scan == Scan(drawing_models)
        met == {i \in DOMAIN scan :
                  \E k \in MapPorts(scan[i].k1, scan[i].ports) :
                     k \in DOMAIN port_mapping /\ port_mapping[k] = x}
    IN  CHOOSE i \in met : \A j \in met : i <= j

(* C9 as stated: a global node first met earlier in the scan has the       *)
(* smaller final id.                                                       *)
C9_FirstSeenOrder ==
    (Current /\ outcome = "done") =>
        \A x, y \in global_nodes : FirstSeen(x) < FirstSeen(y) => x < y

(* Scan position of the first multi-port list whose keys lie in class c *)
FirstMulti(c) ==
    LET scan == Scan(drawing_models)
        multi == {i \in DOMAIN scan :
                    Len(scan[i].ports) > 1 /\ MapPorts(scan[i].k1, scan[i].ports) \subseteq c}
    IN  CHOOSE i \in multi : \A j \in multi : i <= j

(* Scan position of the last port list that lists key k *)
LastListing(k) ==
    LET scan == Scan(drawing_models)
        lists == {i \in DOMAIN scan : k \in MapPorts(scan[i].k1, scan[i].ports)}
    IN  CHOOSE i \in lists : \A j \in lists : j <= i

ClassId(c) == port_mapping[CHOOSE a \in c : TRUE]

(* C9 amended: among merged classes the ids follow the scan order of each  *)
(* class's first multi-port list; an unmerged key has the tentative id of  *)
(* the last port list that lists it, and every merged class has a larger   *)
(* id than every unmerged key.                                             *)
C9_MergedClassOrder ==
    (Current /\ outcome # "new") =>
        LET classes == SetOf(duplicate_ports_list_comb)
            merged == UNION classes
        IN  /\ \A X, Y \in classes :
                  FirstMulti(X) < FirstMulti(Y) => ClassId(X) < ClassId(Y)
            /\ \A b \in (DOMAIN port_mapping) \ merged :
                  /\ port_mapping[b] = LastListing(b) - 1
                  /\ \A X \in classes : port_mapping[b] < ClassId(X)

(* A completed call with two merged classes *)
C9_Witness ==
    /\ Current
    /\ outcome = "done"
    /\ Len(duplicate_ports_list_comb) = 2
    /\ Cardinality(global_nodes) = 2

(* First position of the last loop's nodes at which the loop cannot go on *)
Unbound(i) ==
    /\ pass2_nodes[i].ports # <<>>
    /\ MapPort(pass2_nodes[i].k1, pass2_nodes[i].ports[1]) \notin DOMAIN port_mapping

(* C10: when the last loop meets a first port key that is not a key of     *)
(* port_mapping, the call ends with KeyError; the local node at that       *)
(* position and all later ones get no node_mapping entry, and no global    *)
(* node outside the values of port_mapping is recorded.                    *)
C10_UnboundFailsFast ==
    outcome # "new" =>
        \A i \in DOMAIN pass2_nodes :
            (Unbound(i) /\ \A j \in 1..(i - 1) : pass2_nodes[j].ports # <<>> /\ ~Unbound(j))
            => /\ outcome = "KeyError"
               /\ \A j \in i..Len(pass2_nodes) : pass2_nodes[j].p0 \notin DOMAIN node_mapping
               /\ global_nodes \subseteq Range(port_mapping)
               /\ Range(node_mapping) \subseteq Range(port_mapping)

(* A call that resolved a local node and then met an unregistered key *)
C10_Witness ==
    /\ outcome = "KeyError"
    /\ node_mapping # EmptyMap
    /\ \E i \in DOMAIN pass2_nodes : Unbound(i)

(* C11: when a call of setup_base_model ends in an exception, port_mapping, *)
(* node_mapping, global_nodes and virtual_global_nodes hold no entry        *)
(* written by that call.  Every call clears the four collections first, so  *)
(* after a failed call whatever they hold was written by it.                *)
C11_NoPartialResult ==
    outcome \in {"IndexError", "KeyError"} =>
        /\ port_mapping = EmptyMap
        /\ node_mapping = EmptyMap
        /\ global_nodes = {}
        /\ virtual_global_nodes = {}

(* The drawings without element k2 of page k1 (1-based positions) *)
Without(drawings, k1, k2) == [drawings EXCEPT ![k1] = RemoveAt(@, k2)]

(* The global node of every local node in scan order; -1 for a local node  *)
(* that node_mapping does not hold                                         *)
NodeIds(drawings, mapping) ==
    [i \in DOMAIN Scan(drawings) |->
        IF Scan(drawings)[i].p0 \in DOMAIN mapping
        THEN mapping[Scan(drawings)[i].p0] ELSE -1]

(* C12: an element whose get_nodes returns no port groups raises no error   *)
(* (the call ends as it ends on the drawings without the element, and with  *)
(* nothing but such elements it completes), owns no entry of node_mapping,  *)
(* leaves port_mapping, global_nodes and virtual_global_nodes as they are   *)
(* without it, and leaves every other local node, in scan order, with the   *)
(* global node it has without it.                                           *)
C12_EmptyElementNeutral ==
    Current =>
        /\ (\A i \in DOMAIN drawing_models : \A j \in DOMAIN drawing_models[i] :
               drawing_models[i][j] = <<>>) => outcome = "done"
        /\ \A k1 \in DOMAIN drawing_models : \A k2 \in DOMAIN drawing_models[k1] :
              drawing_models[k1][k2] = <<>> =>
                 LET rest == Without(drawing_models, k1, k2)
                     fresh == FreshResult(rest)
                 IN  /\ outcome = fresh.outcome
                     /\ port_mapping = fresh.port_mapping
                     /\ global_nodes = fresh.global_nodes
                     /\ virtual_global_nodes = fresh.virtual_global_nodes
                     /\ \A p0 \in DOMAIN node_mapping : <<p0[1], p0[2]>> # <<k1 - 1, k2 - 1>>
                     /\ NodeIds(drawing_models, node_mapping)
                           = NodeIds(rest, fresh.node_mapping)

(* A completed call on a page whose first element has no port groups and   *)
(* whose second element has two local nodes with distinct global nodes     *)
C12_Witness ==
    /\ Current
    /\ outcome = "done"
    /\ \E k1 \in DOMAIN drawing_models :
          /\ Len(drawing_models[k1]) = 2
          /\ drawing_models[k1][1] = <<>>
          /\ Len(drawing_models[k1][2]) = 2
          /\ {<<k1 - 1, 1, 0>>, <<k1 - 1, 1, 1>>} \subseteq DOMAIN node_mapping
          /\ node_mapping[<<k1 - 1, 1, 0>>] # node_mapping[<<k1 - 1, 1, 1>>]

----------------------------------------------------------------------------
(* Bounds of the curve inputs *)

MaxSegs == 3

MaxCalls == 2

MaxExp == 2

MaxN == 3

----------------------------------------------------------------------------
(* Numbers of the curve library.  A number is a fraction [n, d] in lowest  *)
(* terms with d >= 0; d = 0 holds the IEEE results of numpy arithmetic:    *)
(* 1/0 is inf, -1/0 is -inf, 0/0 is nan.  A power with a fractional        *)
(* exponent, and every value computed from one, is kept as a symbolic term *)
(* (a record with a field sym).                                            *)

RECURSIVE Gcd(_, _)
Gcd(a, b) == IF b = 0 THEN a ELSE Gcd(b, a % b)

Abs(a) == IF a < 0 THEN -a ELSE a

Sign(a) == IF a > 0 THEN 1 ELSE IF a < 0 THEN -1 ELSE 0

(* The fraction n/d with the common factor g taken out *)
Reduce(n, d, g) == [n |-> Sign(d) * (n \div g), d |-> Abs(d) \div g]

Q(n, d) ==
    IF d = 0 THEN [n |-> Sign(n), d |-> 0] ELSE Reduce(n, d, Gcd(Abs(n), Abs(d)))

Num(a) == Q(a, 1)

NaN == [n |-> 0, d |-> 0]

Inf == [n |-> 1, d |-> 0]

IsSym(x) == "sym" \in DOMAIN x

IsNaN(x) == x.d = 0 /\ x.n = 0

IsFinite(x) == x.d # 0

QMul(x, y) == Q(x.n * y.n, x.d * y.d)

QDiv(x, y) == Q(x.n * y.d * (IF y.n < 0 THEN -1 ELSE 1), x.d * Abs(y.n))

QAdd(x, y) ==
    IF IsNaN(x) \/ IsNaN(y) THEN NaN
    ELSE IF ~IsFinite(x) /\ ~IsFinite(y) THEN (IF x.n = y.n THEN x ELSE NaN)
    ELSE IF ~IsFinite(x) THEN x
    ELSE IF ~IsFinite(y) THEN y
    ELSE Q(x.n * y.d + y.n * x.d, x.d * y.d)

QNeg(x) == [n |-> -x.n, d |-> x.d]

QSub(x, y) == QAdd(x, QNeg(y))

(* x < y; every comparison with nan is false *)
QLess(x, y) ==
    IF IsNaN(x) \/ IsNaN(y) THEN FALSE
    ELSE IF ~IsFinite(x) THEN x.n < 0 /\ ~(~IsFinite(y) /\ y.n < 0)
    ELSE IF ~IsFinite(y) THEN y.n > 0
    ELSE x.n * y.d < y.n * x.d

QLeq(x, y) == ~IsNaN(x) /\ ~IsNaN(y) /\ ~QLess(y, x)

(* np.maximum: nan if either argument is nan *)
QMax(x, y) ==
    IF IsNaN(x) \/ IsNaN(y) THEN NaN ELSE IF QLess(x, y) THEN y ELSE x

RECURSIVE QPowInt(_, _)
QPowInt(x, e) == IF e = 0 THEN Num(1) ELSE QMul(x, QPowInt(x, e - 1))

(* x ** alpha for a finite x > 0 *)
Pow(x, alpha) ==
    IF alpha.d = 1 /\ alpha.n >= 0 THEN QPowInt(x, alpha.n)
    ELSE IF x = Num(1) THEN Num(1)
    ELSE [sym |-> "pow", base |-> x, exp |-> alpha]

----------------------------------------------------------------------------
(* Curve function library (evaluate_curves, the nested functions)          *)

Reverse(s) == [j \in DOMAIN s |-> s[Len(s) + 1 - j]]

(* Ratios between successive samples that the sampling below can produce *)
Steps == {Q(2 ^ a, 2 ^ b) : a, b \in 0..MaxExp}

(* The inputs on which the geometric samples are rational numbers *)
ExactGeom(i1, i2, n) ==
    n <= 1 \/ \E s \in Steps : QPowInt(s, n - 1) = QDiv(i2, i1)

(* np.geomspace(i1, i2, num=n) for non-zero i1, i2 of one sign and n >= 0: *)
(* i1 * (i2/i1) ** (j/(n-1)), j = 0..n-1; num = 1 yields i1 alone.         *)
(* n >= 2 samples from i1 to i2 with the ratio s between neighbours *)
GeomSamples(i1, i2, n, s) ==
    [j \in 1..n |-> IF j = n THEN i2 ELSE QMul(i1, QPowInt(s, j - 1))]

GeomSpace(i1, i2, n) ==
    IF n = 0 THEN <<>>
    ELSE IF n = 1 THEN <<i1>>
    ELSE GeomSamples(i1, i2, n, CHOOSE r \in Steps : QPowInt(r, n - 1) = QDiv(i2, i1))

point(i1, t1) == [i |-> <<i1>>, t |-> <<t1>>]

(* np.maximum(tms*(k/((i/i_n)**alpha - 1) + c), t_min) for one current i *)
(* np.maximum(tms*(k/(p - 1) + c), t_min) for the power p = (i/i_n)**alpha *)
IecTimeOf(tms, k, c, p, t_min) ==
    IF IsSym(p)
    THEN [sym |-> "iec", tms |-> tms, k |-> k, c |-> c, p |-> p, t_min |-> t_min]
    ELSE QMax(QMul(tms, QAdd(QDiv(k, QSub(p, Num(1))), c)), t_min)

IecTime(tms, i_n, k, c, alpha, i, t_min) ==
    IecTimeOf(tms, k, c, Pow(QDiv(i, i_n), alpha), t_min)

(* tms*(k/(p - 1) + c) for the power p = (i/i_n)**alpha *)
IecTimeNoFloor(tms, k, c, p) ==
    IF IsSym(p)
    THEN [sym |-> "iec", tms |-> tms, k |-> k, c |-> c, p |-> p]
    ELSE QMul(tms, QAdd(QDiv(k, QSub(p, Num(1))), c))

IecSamplesNoFloor(tms, i_n, k, c, alpha, t_min, i_array) ==
    [i |-> i_array,
     t |-> [j \in DOMAIN i_array |->
               IecTimeNoFloor(tms, k, c, Pow(QDiv(i_array[j], i_n), alpha))]]

(* The currents i_array with their times *)
IecSamples(tms, i_n, k, c, alpha, t_min, i_array) ==
    [i |-> i_array,
     t |-> [j \in DOMAIN i_array |-> IecTime(tms, i_n, k, c, alpha, i_array[j], t_min)]]

(* Variant: the times are not floored by t_min *)
iecNoFloor(tms, i_n, k, c, alpha, i1, i2, t_min, n) ==
    IF QLess(i1, i2)
    THEN IecSamplesNoFloor(tms, i_n, k, c, alpha, t_min, GeomSpace(i1, i2, n.n))
    ELSE [i |-> <<>>, t |-> <<>>]

(* Variant: the segment is sampled when i2 >= i1 *)
iecClosedGuard(tms, i_n, k, c, alpha, i1, i2, t_min, n) ==
    IF QLeq(i1, i2)
    THEN IecSamples(tms, i_n, k, c, alpha, t_min, GeomSpace(i1, i2, n.n))
    ELSE [i |-> <<>>, t |-> <<>>]

iec(tms, i_n, k, c, alpha, i1, i2, t_min, n) ==
    IF QLess(i1, i2)
    THEN IecSamples(tms, i_n, k, c, alpha, t_min, GeomSpace(i1, i2, n.n))
    ELSE [i |-> <<>>, t |-> <<>>]

(* tms*np.log(i**2/(i**2 - i_n**2)) for one current i: log of a negative   *)
(* number is nan, log(inf) is inf                                          *)
(* tms*np.log(arg) *)
ThermalTimeOf(tms, arg) ==
    IF IsNaN(arg) \/ QLess(arg, Num(0)) THEN NaN
    ELSE IF ~IsFinite(arg) THEN QMul(tms, Inf)
    ELSE IF arg = Num(1) THEN QMul(tms, Num(0))
    ELSE [sym |-> "thermal", tms |-> tms, arg |-> arg]

ThermalTime(tms, i_n, i) ==
    ThermalTimeOf(tms, QDiv(QMul(i, i), QSub(QMul(i, i), QMul(i_n, i_n))))

ThermalSamples(tms, i_n, i_array) ==
    [i |-> i_array,
     t |-> [j \in DOMAIN i_array |-> ThermalTime(tms, i_n, i_array[j])]]

(* Variant: like iec and i2t, no samples unless i2 > i1 *)
thermalGuarded(tms, i_n, i1, i2, n) ==
    IF QLess(i1, i2) THEN ThermalSamples(tms, i_n, GeomSpace(i1, i2, n.n))
    ELSE [i |-> <<>>, t |-> <<>>]

thermal(tms, i_n, i1, i2, n) == ThermalSamples(tms, i_n, GeomSpace(i1, i2, n.n))

(* np.maximum(tms*(k/((i/i_n)**alpha)), t_min) for one current i *)
(* np.maximum(tms*(k/p), t_min) for the power p = (i/i_n)**alpha *)
I2tTimeOf(tms, k, p, t_min) ==
    IF IsSym(p)
    THEN [sym |-> "i2t", tms |-> tms, k |-> k, p |-> p, t_min |-> t_min]
    ELSE QMax(QMul(tms, QDiv(k, p)), t_min)

I2tTime(tms, i_n, k, alpha, i, t_min) ==
    I2tTimeOf(tms, k, Pow(QDiv(i, i_n), alpha), t_min)

I2tSamples(tms, i_n, k, alpha, t_min, i_array) ==
    [i |-> i_array,
     t |-> [j \in DOMAIN i_array |-> I2tTime(tms, i_n, k, alpha, i_array[j], t_min)]]

i2t(tms, i_n, k, alpha, i1, i2, t_min, n) ==
    IF QLess(i1, i2)
    THEN I2tSamples(tms, i_n, k, alpha, t_min, GeomSpace(i1, i2, n.n))
    ELSE [i |-> <<>>, t |-> <<>>]

iec_inverse(tms, i_n, i1, i2, t_min, n) ==
    iec(tms, i_n, Q(14, 100), Num(0), Q(2, 100), i1, i2, t_min, n)

iec_v_inverse(tms, i_n, i1, i2, t_min, n) ==
    iec(tms, i_n, Q(135, 10), Num(0), Num(1), i1, i2, t_min, n)

(* Variant: k = 8 *)
iec_e_inverse_k8(tms, i_n, i1, i2, t_min, n) ==
    iec(tms, i_n, Num(8), Num(0), Num(2), i1, i2, t_min, n)

iec_e_inverse(tms, i_n, i1, i2, t_min, n) ==
    iec(tms, i_n, Num(80), Num(0), Num(2), i1, i2, t_min, n)

ieee_m_inverse(tms, i_n, i1, i2, t_min, n) ==
    iec(tms, i_n, Q(515, 10000), Q(1140, 10000), Q(2, 100), i1, i2, t_min, n)

ieee_v_inverse(tms, i_n, i1, i2, t_min, n) ==
    iec(tms, i_n, Q(1961, 100), Q(491, 1000), Num(2), i1, i2, t_min, n)

ieee_e_inverse(tms, i_n, i1, i2, t_min, n) ==
    iec(tms, i_n, Q(282, 10), Q(1217, 10000), Num(2), i1, i2, t_min, n)

----------------------------------------------------------------------------
(* Curve evaluator (eval_curve).  A segment is a tuple <<func_str, x1, ..>> *)
(* whose arguments are numbers or references: the text "f.name" or         *)
(* "d.name" is the record [scope |-> "f", name |-> "name"].  A field dict  *)
(* maps a name to a field, a record with a value.                          *)

FuncDict == {"point", "iec", "iec_inverse", "iec_v_inverse", "iec_e_inverse",
             "ieee_m_inverse", "ieee_v_inverse", "ieee_e_inverse", "thermal", "i2t"}

(* eval(func_str, func_dict) also finds the names of Python's builtins *)
Builtins == {"max"}

Arity(func_str) ==
    CASE func_str = "point" -> 2
      [] func_str = "iec" -> 9
      [] func_str = "thermal" -> 5
      [] func_str = "i2t" -> 8
      [] OTHER -> 6

CallFunc(func_str, a) ==
    CASE func_str = "point" -> point(a[1], a[2])
      [] func_str = "iec" -> iec(a[1], a[2], a[3], a[4], a[5], a[6], a[7], a[8], a[9])
      [] func_str = "iec_inverse" -> iec_inverse(a[1], a[2], a[3], a[4], a[5], a[6])
      [] func_str = "iec_v_inverse" -> iec_v_inverse(a[1], a[2], a[3], a[4], a[5], a[6])
      [] func_str = "iec_e_inverse" -> iec_e_inverse(a[1], a[2], a[3], a[4], a[5], a[6])
      [] func_str = "ieee_m_inverse" -> ieee_m_inverse(a[1], a[2], a[3], a[4], a[5], a[6])
      [] func_str = "ieee_v_inverse" -> ieee_v_inverse(a[1], a[2], a[3], a[4], a[5], a[6])
      [] func_str = "ieee_e_inverse" -> ieee_e_inverse(a[1], a[2], a[3], a[4], a[5], a[6])
      [] func_str = "thermal" -> thermal(a[1], a[2], a[3], a[4], a[5])
      [] func_str = "i2t" -> i2t(a[1], a[2], a[3], a[4], a[5], a[6], a[7], a[8])

IsRef(x) == "scope" \in DOMAIN x

(* eval(x, var_dict) of a reference: "" when it resolves, else the error *)
RefError(x, f, d) ==
    IF x.scope \notin {"f", "d"} THEN "NameError"
    ELSE IF x.name \notin DOMAIN (IF x.scope = "f" THEN f ELSE d) THEN "AttributeError"
    ELSE ""

(* FieldDict attribute access: the value of the named field *)
FieldValue(x, f, d) == (IF x.scope = "f" THEN f ELSE d)[x.name].value

(* data_eval: the error of the first argument that does not resolve, or    *)
(* the values                                                              *)
(* The error of the first of the arguments bad, which do not resolve *)
FirstError(data, f, d, bad) ==
    [err |-> RefError(data[CHOOSE j \in bad : \A m \in bad : j <= m], f, d),
     values |-> <<>>]

DataEval(data, f, d) ==
    IF \E j \in DOMAIN data : IsRef(data[j]) /\ RefError(data[j], f, d) # ""
    THEN FirstError(data, f, d,
                    {j \in DOMAIN data : IsRef(data[j]) /\ RefError(data[j], f, d) # ""})
    ELSE [err |-> "",
          values |-> [j \in DOMAIN data |->
                         IF IsRef(data[j]) THEN FieldValue(data[j], f, d) ELSE data[j]]]

(* i_array, t_array = the two sequences the function returns *)
Unpack(r) == [err |-> "", i |-> r.i, t |-> r.t]

(* Outcome of one segment: the function is looked up, then the arguments   *)
(* are resolved, then the function is called                               *)
CallSegment(func_str, data_eval) ==
    IF func_str \notin FuncDict \cup Builtins
    THEN [err |-> "NameError", i |-> <<>>, t |-> <<>>]
    ELSE IF data_eval.err # ""
    THEN [err |-> data_eval.err, i |-> <<>>, t |-> <<>>]
    ELSE IF func_str \in Builtins \/ Len(data_eval.values) # Arity(func_str)
    THEN [err |-> "TypeError", i |-> <<>>, t |-> <<>>]
    ELSE Unpack(CallFunc(func_str, data_eval.values))

SegmentResult(seg, f, d) == CallSegment(Head(seg), DataEval(Tail(seg), f, d))

(* Variant: the samples of a segment are put before those collected so far *)
AccumulatePrepend(acc, r) ==
    IF r.err # "" THEN [acc EXCEPT !.err = r.err]
    ELSE [acc EXCEPT !.curve_i = r.i \o @, !.curve_t = r.t \o @]

EvalSegmentPrepend(acc, seg, f, d) == AccumulatePrepend(acc, SegmentResult(seg, f, d))

(* Variant: a segment whose function or reference is not found is skipped *)
AccumulateSkip(acc, r) ==
    IF r.err \in {"NameError", "AttributeError"} THEN acc
    ELSE IF r.err # "" THEN [acc EXCEPT !.err = r.err]
    ELSE [acc EXCEPT !.curve_i = @ \o r.i, !.curve_t = @ \o r.t]

EvalSegmentSkip(acc, seg, f, d) == AccumulateSkip(acc, SegmentResult(seg, f, d))

(* curve_i += i_array; curve_t += t_array *)
Accumulate(acc, r) ==
    IF r.err # "" THEN [acc EXCEPT !.err = r.err]
    ELSE [acc EXCEPT !.curve_i = @ \o r.i, !.curve_t = @ \o r.t]

(* Body of the loop "for func_str, *data in curve" *)
EvalSegment(acc, seg, f, d) == Accumulate(acc, SegmentResult(seg, f, d))

RECURSIVE EvalSegments(_, _, _, _)
EvalSegments(acc, curve, f, d) ==
    IF curve = <<>> \/ acc.err # "" THEN acc
    ELSE EvalSegments(EvalSegment(acc, Head(curve), f, d), Tail(curve), f, d)

Min(a, b) == IF a < b THEN a ELSE b

Zip(xs, ys) == [j \in 1..Min(Len(xs), Len(ys)) |-> <<xs[j], ys[j]>>]

(* curve = [(x,y) for x,y in zip(curve_i, curve_t)] *)
ZipCurve(acc) ==
    IF acc.err # "" THEN [err |-> acc.err, curve |-> <<>>]
    ELSE [err |-> "", curve |-> Zip(acc.curve_i, acc.curve_t)]

eval_curve(curve, f, d) ==
    ZipCurve(EvalSegments([err |-> "", curve_i |-> <<>>, curve_t |-> <<>>], curve, f, d))

----------------------------------------------------------------------------
(* Geometry (shapely).  A LineString is kept as its coordinate sequence, a *)
(* Polygon as the coordinate sequence of its exterior ring.                *)

(* LineString(points): no point gives the empty line, one point is         *)
(* rejected                                                                *)
LineString(points) ==
    IF Len(points) = 1 THEN [err |-> "ValueError", coords |-> <<>>]
    ELSE [err |-> "", coords |-> points]

(* A ring is stored closed: the first point is repeated at the end unless  *)
(* the sequence already ends at its first point                            *)
CloseRing(points) ==
    IF points = <<>> \/ points[1] = points[Len(points)] THEN points
    ELSE Append(points, points[1])

(* Variant: the shell is kept as given *)
PolygonOpen(points) ==
    IF points = <<>> THEN [err |-> "", coords |-> <<>>]
    ELSE IF Len(CloseRing(points)) < 4 THEN [err |-> "ValueError", coords |-> <<>>]
    ELSE [err |-> "", coords |-> points]

(* Polygon(points): no point gives the empty polygon; a closed ring has at *)
(* least 4 coordinates, so fewer than 3 points are rejected                *)
Polygon(points) ==
    IF points = <<>> THEN [err |-> "", coords |-> <<>>]
    ELSE IF Len(CloseRing(points)) < 4 THEN [err |-> "ValueError", coords |-> <<>>]
    ELSE [err |-> "", coords |-> CloseRing(points)]

----------------------------------------------------------------------------
(* ProtectionModel *)

ProtSelf ==
    [title |-> title, data_struct |-> data_struct,
     curve_upper |-> curve_upper, curve_lower |-> curve_lower,
     linestring_upper |-> linestring_upper, linestring_lower |-> linestring_lower,
     polygon |-> polygon, written |-> written, outcome |-> "done"]

(* One field per parameter key, holding the parameter's value *)
get_data_fields(self) ==
    [key \in DOMAIN self.data_struct.parameters |->
        [value |-> self.data_struct.parameters[key][3]]]

(* self.polygon = Polygon(...) *)
SetPolygon(self, no, pg) ==
    IF pg.err # "" THEN [self EXCEPT !.outcome = pg.err]
    ELSE [self EXCEPT !.polygon = pg.coords, !.written.polygon = no, !.outcome = "done"]

(* self.linestring_lower = LineString(...) and what follows *)
SetLinestringLower(self, no, ll) ==
    IF ll.err # "" THEN [self EXCEPT !.outcome = ll.err]
    ELSE SetPolygon([self EXCEPT !.linestring_lower = ll.coords,
                                 !.written.linestring_lower = no],
                    no, Polygon(Reverse(self.curve_upper) \o self.curve_lower))

(* self.linestring_upper = LineString(...) and what follows *)
SetLinestringUpper(self, no, lu) ==
    IF lu.err # "" THEN [self EXCEPT !.outcome = lu.err]
    ELSE SetLinestringLower([self EXCEPT !.linestring_upper = lu.coords,
                                         !.written.linestring_upper = no],
                            no, LineString(self.curve_lower))

(* self.curve_lower = eval_curve(...) and what follows *)
SetCurveLower(self, no, l) ==
    IF l.err # "" THEN [self EXCEPT !.outcome = l.err]
    ELSE SetLinestringUpper([self EXCEPT !.curve_lower = l.curve,
                                         !.written.curve_lower = no],
                            no, LineString(Reverse(self.curve_upper)))

(* self.curve_upper = eval_curve(...) and what follows *)
SetCurveUpper(self, f, d, no, u) ==
    IF u.err # "" THEN [self EXCEPT !.outcome = u.err]
    ELSE SetCurveLower([self EXCEPT !.curve_upper = u.curve, !.written.curve_upper = no],
                       no, eval_curve(self.data_struct.data.curve_l, f, d))

(* evaluate_curves as call number no on self: the fields are assigned one  *)
(* after the other and an exception ends the call where it stands          *)
EvaluateInScopes(self, f, d, no) ==
    SetCurveUpper(self, f, d, no, eval_curve(self.data_struct.data.curve_u, f, d))

EvaluateCurves(self, fields, data_fields, no) ==
    EvaluateInScopes(self, fields,
                     IF data_fields # EmptyMap THEN data_fields ELSE get_data_fields(self),
                     no)

Xs(points) == [j \in DOMAIN points |-> points[j][1]]

Ys(points) == [j \in DOMAIN points |-> points[j][2]]

(* Variant: the graph of a damage model always has the plain title, and    *)
(* the lower curve is listed before the upper curve                        *)
update_graphPlain(self) ==
    IF self.data_struct.type = "protection"
    THEN IF self.written.polygon = 0 THEN [self EXCEPT !.outcome = "AttributeError"]
         ELSE IF self.polygon = <<>> THEN [self EXCEPT !.outcome = "IndexError"]
         ELSE [self EXCEPT !.data_struct.graph_model =
                  <<self.title, <<[mode |-> "GRAPH_DATATYPE_POLYGON",
                                   title |-> self.title,
                                   xval |-> Xs(self.polygon),
                                   yval |-> Ys(self.polygon)]>> >>]
    ELSE IF self.data_struct.type = "damage"
    THEN IF self.written.curve_upper = 0 \/ self.written.curve_lower = 0
         THEN [self EXCEPT !.outcome = "TypeError"]
         ELSE [self EXCEPT !.data_struct.graph_model =
                  <<self.title,
                    (IF self.curve_lower # <<>>
                     THEN <<[mode |-> "GRAPH_DATATYPE_PROFILE",
                             title |-> self.title \o " - Starting",
                             xval |-> Xs(self.curve_lower),
                             yval |-> Ys(self.curve_lower)]>>
                     ELSE <<>>)
                    \o
                    (IF self.curve_upper # <<>>
                     THEN <<[mode |-> "GRAPH_DATATYPE_PROFILE",
                             title |-> self.title \o " - Damage",
                             xval |-> Xs(self.curve_upper),
                             yval |-> Ys(self.curve_upper)]>>
                     ELSE <<>>)>>]
    ELSE self

(* update_graph: a field that is still None, or the coordinate array of an *)
(* empty polygon indexed by column, raises                                 *)
update_graph(self) ==
    IF self.data_struct.type = "protection"
    THEN IF self.written.polygon = 0 THEN [self EXCEPT !.outcome = "AttributeError"]
         ELSE IF self.polygon = <<>> THEN [self EXCEPT !.outcome = "IndexError"]
         ELSE [self EXCEPT !.data_struct.graph_model =
                  <<self.title, <<[mode |-> "GRAPH_DATATYPE_POLYGON",
                                   title |-> self.title,
                                   xval |-> Xs(self.polygon),
                                   yval |-> Ys(self.polygon)]>> >>]
    ELSE IF self.data_struct.type = "damage"
    THEN IF self.written.curve_upper = 0 \/ self.written.curve_lower = 0
         THEN [self EXCEPT !.outcome = "TypeError"]
         ELSE LET damage_flag == self.curve_upper # <<>>
                  starting_flag == self.curve_lower # <<>>
                  graphs ==
                      (IF damage_flag
                       THEN <<[mode |-> "GRAPH_DATATYPE_PROFILE",
                               title |-> self.title \o " - Damage",
                               xval |-> Xs(self.curve_upper),
                               yval |-> Ys(self.curve_upper)]>>
                       ELSE <<>>)
                      \o
                      (IF starting_flag
                       THEN <<[mode |-> "GRAPH_DATATYPE_PROFILE",
                               title |-> self.title \o " - Starting",
                               xval |-> Xs(self.curve_lower),
                               yval |-> Ys(self.curve_lower)]>>
                       ELSE <<>>)
                  graph_title ==
                      IF damage_flag /\ ~starting_flag THEN self.title \o " - Damage curve"
                      ELSE IF starting_flag /\ ~damage_flag
                      THEN self.title \o " - Starting curve"
                      ELSE self.title
              IN  [self EXCEPT !.data_struct.graph_model = <<graph_title, graphs>>]
    ELSE self

UpdateGraphIfDone(evaluated) ==
    IF evaluated.outcome # "done" THEN evaluated ELSE update_graph(evaluated)

GetEvaluatedModel(self, fields, data_fields, no) ==
    UpdateGraphIfDone(EvaluateCurves(self, fields, data_fields, no))

(* Variant: the structure is returned as it is, the caller holds the       *)
(* model's own data_struct                                                *)
SameObject(obj) == [has |-> TRUE, shared |-> TRUE, struct |-> obj]

(* copy.deepcopy(obj): an equal structure that shares nothing with obj *)
deepcopy(obj) == [has |-> TRUE, shared |-> FALSE, struct |-> obj]

(* What the caller of call number no holds after the call: the structure   *)
(* a completed get_evaluated_model returns, else what it held before       *)
Returned(r, op) ==
    IF op = "get_evaluated_model" /\ r.outcome = "done" THEN deepcopy(r.data_struct)
    ELSE held

StoreProtection(r, op, fields, data_fields) ==
    /\ held' = Returned(r, op)
    /\ returns' = IF op = "get_evaluated_model" /\ r.outcome = "done"
                  THEN Append(returns, [fields |-> fields, data_fields |-> data_fields,
                                        struct |-> r.data_struct])
                  ELSE returns
    /\ data_struct' = r.data_struct
    /\ curve_upper' = r.curve_upper
    /\ curve_lower' = r.curve_lower
    /\ linestring_upper' = r.linestring_upper
    /\ linestring_lower' = r.linestring_lower
    /\ polygon' = r.polygon
    /\ written' = r.written
    /\ call' = [no |-> call.no + 1, op |-> op, fields |-> fields,
                data_fields |-> data_fields, outcome |-> r.outcome]
    /\ UNCHANGED <<title, drawing_models, port_mapping, node_mapping, global_nodes,
                   virtual_global_nodes, duplicate_ports_list,
                   duplicate_ports_list_comb, pass2_nodes, outcome, history,
                   update, built, bvars>>

(* The callers' arguments *)
FieldChoices ==
    {[tms |-> [value |-> Num(1)], i1 |-> [value |-> Num(1)]],
     [i1 |-> [value |-> Num(2)]]}

DataFieldChoices == {EmptyMap, [i_n |-> [value |-> Num(1)]]}

evaluate_curves ==
    /\ call.no < MaxCalls
    /\ \E fields \in FieldChoices : \E data_fields \in DataFieldChoices :
          StoreProtection(EvaluateCurves(ProtSelf, fields, data_fields, call.no + 1),
                          "evaluate_curves", fields, data_fields)

get_evaluated_model ==
    /\ call.no < MaxCalls
    /\ \E fields \in FieldChoices : \E data_fields \in DataFieldChoices :
          StoreProtection(GetEvaluatedModel(ProtSelf, fields, data_fields, call.no + 1),
                          "get_evaluated_model", fields, data_fields)

(* The curve specifications the models are constructed on *)
Segments ==
    {<<"point", Num(1), Num(10)>>,
     <<"point", Num(2), Num(5)>>,
     <<"point", [scope |-> "f", name |-> "i1"], Num(1)>>,
     <<"iec_v_inverse", [scope |-> "f", name |-> "tms"], [scope |-> "d", name |-> "i_n"],
       Num(2), Num(8), Q(1, 100), Num(3)>>,
     <<"iec", Num(1), Num(1), Num(1), Num(0), Num(1), Num(4), Num(2), Q(1, 100), Num(3)>>,
     <<"foo", Num(1), Num(1)>>,
     <<"max", Num(1), Num(2)>>}

CurvePairs ==
    {c \in SeqsUpTo(Segments, MaxSegs) \X SeqsUpTo(Segments, MaxSegs) :
        Len(c[1]) + Len(c[2]) <= MaxSegs}

Parameters == [i_n |-> <<"In", "A", Num(2), <<>>>>]

NoResolver ==
    /\ drawing_models = <<<<>>>>
    /\ NoPowerModel
    /\ port_mapping = EmptyMap
    /\ node_mapping = EmptyMap
    /\ global_nodes = {}
    /\ virtual_global_nodes = {}
    /\ duplicate_ports_list = <<>>
    /\ duplicate_ports_list_comb = <<>>
    /\ pass2_nodes = <<>>
    /\ outcome = "new"
    /\ history = "new"

InitProtection ==
    /\ NoResolver
    /\ title = "R1"
    /\ \E element_type \in {"protection", "damage"} : \E c \in CurvePairs :
          data_struct = [type |-> element_type, parameters |-> Parameters,
                         data |-> [curve_u |-> c[1], curve_l |-> c[2]],
                         graph_model |-> <<>>]
    /\ NotEvaluated

NextProtection == evaluate_curves \/ get_evaluated_model

SpecProtection == InitProtection /\ [][NextProtection]_vars

----------------------------------------------------------------------------
(* Vocabulary of the curve properties *)

(* Scopes f and d of the last call *)
ScopeF == call.fields

ScopeD == IF call.data_fields # EmptyMap THEN call.data_fields ELSE get_data_fields(ProtSelf)

(* The (i, t) samples of one segment in the scopes of the last call *)
SegmentSamples(seg) ==
    Zip(SegmentResult(seg, ScopeF, ScopeD).i, SegmentResult(seg, ScopeF, ScopeD).t)

SamplesOf(curve) == [k \in DOMAIN curve |-> SegmentSamples(curve[k])]

(* The last call assigned the field *)
Fresh(field) == call.no > 0 /\ written[field] = call.no

(* C13: the curve eval_curve returns is the concatenation, in specification *)
(* order, of the samples of its segments: its length is the sum of the      *)
(* segments' sample counts and segment k's samples, in their own order,     *)
(* come before those of segment k+1.                                        *)
C13_Concatenation ==
    /\ Fresh("curve_upper") =>
          /\ curve_upper = Concat(SamplesOf(data_struct.data.curve_u))
          /\ Len(curve_upper) = SumLen(SamplesOf(data_struct.data.curve_u))
    /\ Fresh("curve_lower") =>
          /\ curve_lower = Concat(SamplesOf(data_struct.data.curve_l))
          /\ Len(curve_lower) = SumLen(SamplesOf(data_struct.data.curve_l))

(* An upper curve of a point, a three-sample segment and another point was *)
(* evaluated to five samples                                               *)
C13_Witness ==
    /\ Fresh("curve_upper")
    /\ Len(data_struct.data.curve_u) = 3
    /\ Len(SegmentSamples(data_struct.data.curve_u[1])) = 1
    /\ Len(SegmentSamples(data_struct.data.curve_u[2])) = 3
    /\ Len(SegmentSamples(data_struct.data.curve_u[3])) = 1
    /\ Len(curve_upper) = 5
    /\ curve_upper[1] # curve_upper[5]

(* The segment names no function of the curve library, or one of its       *)
(* references does not resolve in the scopes of the last call              *)
Invalid(seg) ==
    \/ Head(seg) \notin FuncDict
    \/ \E j \in DOMAIN Tail(seg) :
          IsRef(Tail(seg)[j]) /\ RefError(Tail(seg)[j], ScopeF, ScopeD) # ""

HasInvalid(curve) == \E k \in DOMAIN curve : Invalid(curve[k])

EvalErrors == {"NameError", "AttributeError", "TypeError"}

----------------------------------------------------------------------------
(* The curve library on its own: models whose upper curve is one segment   *)
(* with literal arguments and whose lower curve is empty                   *)

Currents == {Num(2 ^ e) : e \in 0..MaxExp}

(* (i1, i2, n) with rational samples *)
Samplings ==
    {s \in Currents \X Currents \X {Num(n) : n \in 0..MaxN} : ExactGeom(s[1], s[2], s[3].n)}

TmsValues == {Num(0), Num(1)}

RatedCurrents == {Num(1), Num(2)}

KValues == {Num(0), Q(27, 2)}

CValues == {Num(0), Q(1, 2)}

AlphaValues == {Num(1), Num(2), Q(1, 50)}

TMinValues == {Q(1, 100), Num(1)}

VariantNames == {"iec_inverse", "iec_v_inverse", "iec_e_inverse",
                 "ieee_m_inverse", "ieee_v_inverse", "ieee_e_inverse"}

(* Names the evaluator is asked for that func_dict does not hold *)
OtherNames == {"iec_very_inverse", "iec_extremely_inverse", "ieee_moderately_inverse",
               "ieee_very_inverse", "ieee_extremely_inverse"}

LibrarySegments ==
    {<<"iec", tms, i_n, k, c, alpha, s[1], s[2], t_min, s[3]>> :
        tms \in TmsValues, i_n \in RatedCurrents, k \in KValues, c \in CValues,
        alpha \in AlphaValues, s \in Samplings, t_min \in TMinValues}
    \cup
    {<<"i2t", tms, i_n, k, alpha, s[1], s[2], t_min, s[3]>> :
        tms \in TmsValues, i_n \in RatedCurrents, k \in KValues,
        alpha \in AlphaValues, s \in Samplings, t_min \in TMinValues}
    \cup
    {<<name, tms, i_n, s[1], s[2], t_min, s[3]>> :
        name \in VariantNames \cup OtherNames, tms \in TmsValues, i_n \in RatedCurrents,
        s \in Samplings, t_min \in TMinValues}
    \cup
    {<<"thermal", tms, i_n, s[1], s[2], s[3]>> :
        tms \in TmsValues, i_n \in RatedCurrents, s \in Samplings}

InitLibrary ==
    /\ NoResolver
    /\ title = "R1"
    /\ \E seg \in LibrarySegments :
          data_struct = [type |-> "protection", parameters |-> Parameters,
                         data |-> [curve_u |-> <<seg>>, curve_l |-> <<>>],
                         graph_model |-> <<>>]
    /\ NotEvaluated

SpecLibrary == InitLibrary /\ [][NextProtection]_vars

(* The (k, c, alpha) triples of the six standard curves, in the order      *)
(* IEC inverse, very inverse, extremely inverse, IEEE moderately inverse,  *)
(* very inverse, extremely inverse                                         *)
StandardTriples ==
    << <<Q(14, 100), Num(0), Q(2, 100)>>,
       <<Q(135, 10), Num(0), Num(1)>>,
       <<Num(80), Num(0), Num(2)>>,
       <<Q(515, 10000), Q(1140, 10000), Q(2, 100)>>,
       <<Q(1961, 100), Q(491, 1000), Num(2)>>,
       <<Q(282, 10), Q(1217, 10000), Num(2)>> >>

(* The single upper segment of the model, when it is one *)
TheSegment == data_struct.data.curve_u[1]

(* The model has one upper segment, with literal arguments, and no lower   *)
(* segment                                                                 *)
OneSegment ==
    /\ Len(data_struct.data.curve_u) = 1
    /\ data_struct.data.curve_l = <<>>
    /\ \A j \in DOMAIN Tail(TheSegment) : ~IsRef(Tail(TheSegment)[j])

(* After a call, a segment (name, tms, i_n, i1, i2, t_min, n) whose name is *)
(* the j-th of names was evaluated to the samples of iec with the j-th      *)
(* standard triple                                                          *)
VariantsAreIec(names) ==
    (call.no > 0 /\ OneSegment) =>
        \A j \in DOMAIN names :
            Head(TheSegment) = names[j] =>
                LET r == iec(TheSegment[2], TheSegment[3], StandardTriples[j][1],
                             StandardTriples[j][2], StandardTriples[j][3],
                             TheSegment[4], TheSegment[5], TheSegment[6], TheSegment[7])
                IN  /\ Fresh("curve_upper")
                    /\ curve_upper = Zip(r.i, r.t)

(* C15 as stated: iec_inverse, iec_very_inverse, iec_extremely_inverse,     *)
(* ieee_moderately_inverse, ieee_very_inverse and ieee_extremely_inverse    *)
(* are accepted as function names and evaluated as iec with the standard    *)
(* triples.                                                                 *)
C15_NamedVariants ==
    VariantsAreIec(<<"iec_inverse", "iec_very_inverse", "iec_extremely_inverse",
                     "ieee_moderately_inverse", "ieee_very_inverse",
                     "ieee_extremely_inverse">>)

(* C15 amended: the accepted names are iec_inverse, iec_v_inverse,          *)
(* iec_e_inverse, ieee_m_inverse, ieee_v_inverse and ieee_e_inverse, each   *)
(* evaluated as iec with the standard triple of its position; the long      *)
(* names very/extremely/moderately are unknown names and end the call in    *)
(* NameError.                                                               *)
C15_AcceptedVariants ==
    /\ VariantsAreIec(<<"iec_inverse", "iec_v_inverse", "iec_e_inverse",
                        "ieee_m_inverse", "ieee_v_inverse", "ieee_e_inverse">>)
    /\ (call.no > 0 /\ OneSegment /\ Head(TheSegment) \in OtherNames) =>
          (call.outcome = "NameError" /\ ~Fresh("curve_upper"))

(* ieee_v_inverse was evaluated to two samples with finite times above    *)
(* the floor                                                               *)
C15_Witness ==
    /\ call.no > 0
    /\ OneSegment
    /\ Head(TheSegment) = "ieee_v_inverse"
    /\ Fresh("curve_upper")
    /\ Len(curve_upper) = 2
    /\ \A j \in 1..2 : IsFinite(curve_upper[j][2]) /\ QLess(TheSegment[6], curve_upper[j][2])

(* i1 and i2 of an iec or i2t segment with literal arguments *)
SegmentI1(seg) == IF Head(seg) = "iec" THEN seg[7] ELSE seg[6]

SegmentI2(seg) == IF Head(seg) = "iec" THEN seg[8] ELSE seg[7]

(* C16: an iec or i2t segment with i2 <= i1 returns two empty sequences     *)
(* without raising: the call gets past the evaluation of the curve and the  *)
(* evaluated curve holds no sample.                                         *)
C16_DegenerateSegmentEmpty ==
    (call.no > 0 /\ OneSegment /\ Head(TheSegment) \in {"iec", "i2t"}
       /\ QLeq(SegmentI2(TheSegment), SegmentI1(TheSegment))) =>
        /\ SegmentResult(TheSegment, ScopeF, ScopeD)
              = [err |-> "", i |-> <<>>, t |-> <<>>]
        /\ call.outcome \notin EvalErrors \cup {"ValueError"}
        /\ Fresh("curve_upper")
        /\ curve_upper = <<>>

(* evaluate_curves completed on an iec segment of three samples from 4     *)
(* down to 1, and on an i2t segment with i2 = i1                           *)
C16_Witness ==
    /\ call.no > 0
    /\ OneSegment
    /\ call.outcome = "done"
    /\ Fresh("curve_upper")
    /\ curve_upper = <<>>
    /\ \/ /\ Head(TheSegment) = "iec"
          /\ SegmentI1(TheSegment) = Num(4)
          /\ SegmentI2(TheSegment) = Num(1)
          /\ TheSegment[10] = Num(3)
       \/ /\ Head(TheSegment) = "i2t"
          /\ SegmentI1(TheSegment) = SegmentI2(TheSegment)

(* Arguments of an iec segment <<"iec", tms, i_n, k, c, alpha, i1, i2, t_min, n>> *)
IecArgs(seg) ==
    [tms |-> seg[2], i_n |-> seg[3], k |-> seg[4], c |-> seg[5], alpha |-> seg[6],
     i1 |-> seg[7], i2 |-> seg[8], t_min |-> seg[9], n |-> seg[10].n]

(* A call evaluated the single iec segment of the model, which has i2 > i1 *)
IecSampled ==
    /\ call.no > 0
    /\ OneSegment
    /\ Head(TheSegment) = "iec"
    /\ QLess(IecArgs(TheSegment).i1, IecArgs(TheSegment).i2)
    /\ Fresh("curve_upper")

(* The currents are n, strictly increasing and geometrically spaced *)
CurrentsSpaced(points, n) ==
    /\ Len(points) = n
    /\ \A j \in 1..(Len(points) - 1) : QLess(points[j][1], points[j + 1][1])
    /\ \A j \in 1..(Len(points) - 2) :
          QDiv(points[j + 1][1], points[j][1]) = QDiv(points[j + 2][1], points[j + 1][1])

(* The time at current i is the larger of tms*(k/((i/i_n)^alpha - 1) + c)  *)
(* and t_min in real arithmetic; with a fractional exponent the power is   *)
(* not a fraction and the time is the same expression on that power.       *)
RealTime(a, i, t) ==
    LET x == QDiv(i, a.i_n)
    IN  IF a.alpha.d # 1
        THEN t = [sym |-> "iec", tms |-> a.tms, k |-> a.k, c |-> a.c, t_min |-> a.t_min,
                  p |-> [sym |-> "pow", base |-> x, exp |-> a.alpha]]
        ELSE LET v == QAdd(QMul(a.tms, QDiv(a.k, QSub(QPowInt(x, a.alpha.n), Num(1)))),
                           QMul(a.tms, a.c))
             IN  /\ t = (IF QLess(v, a.t_min) THEN a.t_min ELSE v)
                 /\ QLeq(a.t_min, t)

Boundary == Reverse(curve_upper) \o curve_lower

C19_DegenerateReported ==
    (Fresh("curve_upper") /\ Fresh("curve_lower")
       /\ Len(curve_upper) + Len(curve_lower) < 3) =>
        /\ call.outcome = "DegenerateGeometry"
        /\ ~Fresh("polygon")
        /\ data_struct.graph_model = <<>>

(* C20: after a call of evaluate_curves, completed or failed, the five      *)
(* generated fields were all assigned by the same call.                     *)
C20_SameEvaluation ==
    call.no > 0 =>
        /\ written.curve_lower = written.curve_upper
        /\ written.linestring_upper = written.curve_upper
        /\ written.linestring_lower = written.curve_upper
        /\ written.polygon = written.curve_upper

----------------------------------------------------------------------------
(* The key of a port of page k1: a same-page port (x, y) is (k1, x, y), a   *)
(* cross-page reference is its own key                                     *)
KeyOf(k1, port) == IF Len(port) = 2 THEN <<k1, port[1], port[2]>> ELSE port

(* C21: after a completed setup_base_model, the local node of every port    *)
(* group with a non-empty port list is mapped to the global node that       *)
(* port_mapping holds, after unification, for the group's first port key,   *)
(* and global_nodes is exactly the set of values of node_mapping.           *)
C21_Pass2ReadsFirstKey ==
    (Current /\ outcome = "done") =>
        /\ \A i \in DOMAIN Scan(drawing_models) :
              Scan(drawing_models)[i].ports # <<>> =>
                  node_mapping[Scan(drawing_models)[i].p0]
                      = port_mapping[KeyOf(Scan(drawing_models)[i].k1,
                                           Scan(drawing_models)[i].ports[1])]
        /\ global_nodes = Range(node_mapping)

(* A completed call on two local nodes, one of them with two ports whose   *)
(* first port is a same-page port, that produced two global nodes          *)
C21_Witness ==
    /\ Current
    /\ outcome = "done"
    /\ Cardinality(global_nodes) = 2
    /\ \E i \in DOMAIN Scan(drawing_models) :
          /\ Len(Scan(drawing_models)[i].ports) = 2
          /\ Len(Scan(drawing_models)[i].ports[1]) = 2
          /\ node_mapping[Scan(drawing_models)[i].p0] \in global_nodes

(* The port keys of the i-th port group in scan order *)
KeysOf(i) ==
    {KeyOf(Scan(drawing_models)[i].k1, Scan(drawing_models)[i].ports[m]) :
        m \in DOMAIN Scan(drawing_models)[i].ports}

NodeOf(i) == node_mapping[Scan(drawing_models)[i].p0]

(* C22: after a completed setup_base_model, two port groups whose port      *)
(* lists hold a common port key are mapped to the same global node, whether *)
(* or not a duplicate group was registered for them.                        *)
C22_SharedKeySameNode ==
    (Current /\ outcome = "done") =>
        \A i, j \in DOMAIN Scan(drawing_models) :
            KeysOf(i) \cap KeysOf(j) # {} => NodeOf(i) = NodeOf(j)

(* Two port groups of one port each, on the same key, were resolved with   *)
(* no duplicate group registered                                           *)
C22_Witness ==
    /\ Current
    /\ outcome = "done"
    /\ duplicate_ports_list = <<>>
    /\ \E i, j \in DOMAIN Scan(drawing_models) :
          /\ i < j
          /\ Len(Scan(drawing_models)[i].ports) = 1
          /\ KeysOf(i) = KeysOf(j)
          /\ NodeOf(i) = NodeOf(j)

(* C23: a same-page port (x, y) of page k1 has the key (k1, x, y).  After a *)
(* completed setup_base_model the same (x, y) on two different pages are    *)
(* two keys of port_mapping, bound to two different global nodes unless a   *)
(* chain of duplicate groups links them, and a port group whose first port  *)
(* is the cross-page reference (k, x, y), on any page, is mapped to the     *)
(* same global node as a port group of page k whose first port is (x, y).   *)
C23_PageScopedKeys ==
    (Current /\ outcome = "done") =>
        \A i, j \in DOMAIN Scan(drawing_models) :
            /\ \A a \in DOMAIN Scan(drawing_models)[i].ports :
               \A b \in DOMAIN Scan(drawing_models)[j].ports :
                  (/\ Len(Scan(drawing_models)[i].ports[a]) = 2
                   /\ Scan(drawing_models)[j].ports[b] = Scan(drawing_models)[i].ports[a]
                   /\ Scan(drawing_models)[i].k1 # Scan(drawing_models)[j].k1) =>
                      /\ <<Scan(drawing_models)[i].k1>> \o Scan(drawing_models)[i].ports[a]
                            \in DOMAIN port_mapping
                      /\ <<Scan(drawing_models)[j].k1>> \o Scan(drawing_models)[j].ports[b]
                            \in DOMAIN port_mapping
                      /\ (~Linked(<<Scan(drawing_models)[i].k1>>
                                     \o Scan(drawing_models)[i].ports[a],
                                  <<Scan(drawing_models)[j].k1>>
                                     \o Scan(drawing_models)[j].ports[b],
                                  MultiKeyGroups(drawing_models)) =>
                            port_mapping[<<Scan(drawing_models)[i].k1>>
                                           \o Scan(drawing_models)[i].ports[a]]
                              # port_mapping[<<Scan(drawing_models)[j].k1>>
                                             \o Scan(drawing_models)[j].ports[b]])
            /\ (/\ Scan(drawing_models)[i].ports # <<>>
                /\ Scan(drawing_models)[j].ports # <<>>
                /\ Len(Scan(drawing_models)[i].ports[1]) = 3
                /\ Len(Scan(drawing_models)[j].ports[1]) = 2
                /\ Scan(drawing_models)[i].ports[1]
                      = <<Scan(drawing_models)[j].k1>> \o Scan(drawing_models)[j].ports[1]) =>
                   NodeOf(i) = NodeOf(j)

(* A port group of the first page whose only port is a cross-page reference *)
(* to (0, 0) of the second page, and a port group of the second page whose  *)
(* only port is (0, 0), were resolved to one global node                    *)
C23_Witness ==
    /\ Current
    /\ outcome = "done"
    /\ \E i, j \in DOMAIN Scan(drawing_models) :
          /\ Scan(drawing_models)[i].k1 = 0
          /\ Scan(drawing_models)[i].ports = << <<1, 0, 0>> >>
          /\ Scan(drawing_models)[j].k1 = 1
          /\ Scan(drawing_models)[j].ports = << <<0, 0>> >>
          /\ NodeOf(i) = NodeOf(j)
          /\ Cardinality(global_nodes) = 1

----------------------------------------------------------------------------
----------------------------------------------------------------------------
(* Life of a ProtectionModel: construction, update_parameters,             *)
(* get_evaluated_model, the caller's use of the returned structure, and    *)
(* new_from_data on it                                                     *)

(* Variant: a key the model does not have is added with the given field *)
UpdateParametersAddKeys(self, parameters) ==
    [self EXCEPT !.data_struct.parameters =
        [key \in (DOMAIN @) \cup (DOMAIN parameters) |->
            IF key \notin DOMAIN @ THEN parameters[key]
            ELSE IF key \in DOMAIN parameters
            THEN [@[key] EXCEPT ![3] = parameters[key][3]]
            ELSE @[key]]]

(* for key, field in parameters.items(): if key in the model's parameters, *)
(* parameters[key][2] = field[2]                                           *)
UpdateParameters(self, parameters) ==
    [self EXCEPT !.data_struct.parameters =
        [key \in DOMAIN @ |->
            IF key \in DOMAIN parameters
            THEN [@[key] EXCEPT ![3] = parameters[key][3]]
            ELSE @[key]]]

(* The arguments of update_parameters: one names a key of the model, with  *)
(* another caption, unit and selection list; one names a key of the model  *)
(* and a key the model does not have                                       *)
ParameterUpdates ==
    {[i_n |-> <<"I rated", "kA", Num(1), <<Num(1)>> >>],
     [i_b |-> <<"Ib", "A", Num(2), <<>> >>, i_z |-> <<"Iz", "A", Num(4), <<>> >>]}

update_parameters ==
    /\ \E parameters \in ParameterUpdates :
          /\ data_struct' = UpdateParameters(ProtSelf, parameters).data_struct
          /\ update' = [has |-> TRUE, parameters |-> parameters,
                        before |-> data_struct.parameters]
    /\ UNCHANGED <<title, curve_upper, curve_lower, linestring_upper, linestring_lower,
                   polygon, written, call, held, returns, built>>
    /\ UNCHANGED <<drawing_models, port_mapping, node_mapping, global_nodes,
                   virtual_global_nodes, duplicate_ports_list,
                   duplicate_ports_list_comb, pass2_nodes, outcome, history, bvars>>

(* ProtectionModel(title, parameters, curve_u, curve_l, element_type) *)
ProtectionModel(title_, parameters, curve_u, curve_l, element_type) ==
    [title |-> title_,
     data_struct |-> [type |-> element_type, parameters |-> parameters,
                      data |-> [curve_u |-> curve_u, curve_l |-> curve_l],
                      graph_model |-> <<>>],
     curve_upper |-> <<>>, curve_lower |-> <<>>, linestring_upper |-> <<>>,
     linestring_lower |-> <<>>, polygon |-> <<>>, written |-> Unwritten]

(* Variant: the type of the structure is not looked at *)
NewFromDataAnyType(arg) ==
    IF arg.graph_model = <<>> THEN [outcome |-> "IndexError", arg |-> arg]
    ELSE [outcome |-> "done", arg |-> arg,
          model |-> ProtectionModel(arg.graph_model[1], arg.parameters,
                                    arg.data.curve_u, arg.data.curve_l, "protection")]

(* new_from_data(data_struct): graph_model[0] of an empty graph_model      *)
(* raises IndexError                                                       *)
NewFromData(arg) ==
    IF arg.type = "protection"
    THEN IF arg.graph_model = <<>> THEN [outcome |-> "IndexError", arg |-> arg]
         ELSE [outcome |-> "done", arg |-> arg,
               model |-> ProtectionModel(arg.graph_model[1], arg.parameters,
                                         arg.data.curve_u, arg.data.curve_l, "protection")]
    ELSE [outcome |-> "ValueError", arg |-> arg]

new_from_data ==
    /\ held.has
    /\ built' = NewFromData(held.struct)
    /\ UNCHANGED <<pvars, held, returns, update>>
    /\ UNCHANGED <<drawing_models, port_mapping, node_mapping, global_nodes,
                   virtual_global_nodes, duplicate_ports_list,
                   duplicate_ports_list_comb, pass2_nodes, outcome, history, bvars>>

(* What the caller does to the structure it holds: it changes the type,    *)
(* empties the upper curve, drops the parameters or clears the graph       *)
Mutations(struct) ==
    {[struct EXCEPT !.type = "other"],
     [struct EXCEPT !.data.curve_u = <<>>],
     [struct EXCEPT !.parameters = EmptyMap],
     [struct EXCEPT !.graph_model = <<>>]} \ {struct}

(* The caller changes the structure it was returned; the model's           *)
(* data_struct changes with it only when they are one object               *)
mutate_returned ==
    /\ held.has
    /\ held.struct = returns[Len(returns)].struct
    /\ \E m \in Mutations(held.struct) :
          /\ held' = [held EXCEPT !.struct = m]
          /\ data_struct' = IF held.shared THEN m ELSE data_struct
    /\ UNCHANGED <<title, curve_upper, curve_lower, linestring_upper, linestring_lower,
                   polygon, written, call, returns, update, built>>
    /\ UNCHANGED <<drawing_models, port_mapping, node_mapping, global_nodes,
                   virtual_global_nodes, duplicate_ports_list,
                   duplicate_ports_list_comb, pass2_nodes, outcome, history, bvars>>

(* The models of the life cycle: two parameters, three curve pairs *)
LifecycleParameters ==
    [i_n |-> <<"In", "A", Num(2), <<>> >>, i_b |-> <<"Ib", "A", Num(1), <<Num(1), Num(2)>> >>]

LifecycleCurves ==
    {<< << <<"point", Num(1), Num(10)>>, <<"point", Num(2), Num(5)>>,
           <<"point", [scope |-> "f", name |-> "i1"], Num(1)>> >>, <<>> >>,
     << << <<"iec_v_inverse", [scope |-> "f", name |-> "tms"],
             [scope |-> "d", name |-> "i_n"], Num(2), Num(8), Q(1, 100), Num(3)>> >>,
        << <<"point", Num(1), Num(10)>>, <<"point", Num(2), Num(5)>> >> >>,
     << <<>>, <<>> >>}

InitLifecycle ==
    /\ NoResolver
    /\ title = "R1"
    /\ \E element_type \in {"protection", "damage"} : \E c \in LifecycleCurves :
          data_struct = ProtectionModel("R1", LifecycleParameters, c[1], c[2],
                                        element_type).data_struct
    /\ NotEvaluated

NextLifecycle == get_evaluated_model \/ update_parameters \/ mutate_returned \/ new_from_data

SpecLifecycle == InitLifecycle /\ [][NextLifecycle]_vars

(* Two returned structures are equal when their calls had the same         *)
(* arguments and the model had the same parameter values                   *)
EqualReturns ==
    \A a, b \in DOMAIN returns :
        (/\ returns[a].fields = returns[b].fields
         /\ returns[a].data_fields = returns[b].data_fields
         /\ returns[a].struct.parameters = returns[b].struct.parameters) =>
            returns[a].struct = returns[b].struct

(* A step of get_evaluated_model *)
IsGetEvaluatedModel == call'.no = call.no + 1 /\ call'.op = "get_evaluated_model"

(* C25: a call of get_evaluated_model, completed or not, leaves the title   *)
(* and the type, parameters and curve specifications of data_struct as they *)
(* were; a completed call hands the caller a structure equal to data_struct *)
(* that shares nothing with it, so that a change the caller makes to the    *)
(* structure it holds leaves data_struct as it was; and two calls with the  *)
(* same arguments on the same parameter values return equal structures.     *)
C25_GeneratedFieldsOnly ==
    [][/\ IsGetEvaluatedModel =>
             /\ title' = title
             /\ data_struct'.type = data_struct.type
             /\ data_struct'.parameters = data_struct.parameters
             /\ data_struct'.data = data_struct.data
             /\ call'.outcome = "done" =>
                   (held'.has /\ held'.struct = data_struct' /\ ~held'.shared)
       /\ (call' = call /\ held.has /\ held'.struct # held.struct) =>
             data_struct' = data_struct
       /\ EqualReturns']_vars

(* Two calls with the same arguments returned equal structures, and the    *)
(* caller emptied the upper curve of the structure the second call         *)
(* returned: data_struct is still what the call returned                   *)
C25_Witness ==
    /\ Len(returns) = 2
    /\ returns[1].fields = returns[2].fields
    /\ returns[1].data_fields = returns[2].data_fields
    /\ returns[1].struct = returns[2].struct
    /\ held.has
    /\ held.struct.data.curve_u = <<>>
    /\ data_struct.data.curve_u # <<>>
    /\ data_struct = returns[2].struct

(* C26: after update_parameters the model has the keys it had before; the   *)
(* value of a key named in the argument is the value of the argument's      *)
(* field, the value of every other key is what it was, and caption, unit    *)
(* and selection list of every key are what they were.                      *)
C26_ValueSlotOnly ==
    update.has =>
        /\ DOMAIN data_struct.parameters = DOMAIN update.before
        /\ \A key \in DOMAIN update.before :
              /\ data_struct.parameters[key][1] = update.before[key][1]
              /\ data_struct.parameters[key][2] = update.before[key][2]
              /\ data_struct.parameters[key][4] = update.before[key][4]
              /\ data_struct.parameters[key][3]
                    = IF key \in DOMAIN update.parameters
                      THEN update.parameters[key][3] ELSE update.before[key][3]

(* An update named the key i_b of the model and the key i_z the model does *)
(* not have: the value of i_b changed                                      *)
C26_Witness ==
    /\ update.has
    /\ "i_z" \in DOMAIN update.parameters
    /\ data_struct.parameters["i_b"][3] # update.before["i_b"][3]
    /\ data_struct.parameters["i_b"][4] # <<>>

(* C27: new_from_data builds a model only from a structure of type          *)
(* 'protection' and raises ValueError, building nothing, for every other    *)
(* type; from a 'protection' structure as get_evaluated_model returned it,  *)
(* the new model has the title and curve specifications of the model that   *)
(* returned it and the parameters of the structure, and no generated field. *)
C27_ProtectionOnly ==
    built.outcome # "new" =>
        /\ built.outcome = "done" => built.arg.type = "protection"
        /\ built.arg.type # "protection" =>
              (built.outcome = "ValueError" /\ "model" \notin DOMAIN built)
        /\ (/\ built.arg.type = "protection"
            /\ \E k \in DOMAIN returns : returns[k].struct = built.arg) =>
              /\ built.outcome = "done"
              /\ built.model.title = title
              /\ built.model.data_struct.type = "protection"
              /\ built.model.data_struct.parameters = built.arg.parameters
              /\ built.model.data_struct.data = data_struct.data
              /\ built.model.data_struct.graph_model = <<>>
              /\ built.model.written = Unwritten

(* A model was built from the structure a 'protection' model returned      *)
(* after its parameter i_n had been updated                                *)
C27_Witness ==
    /\ built.outcome = "done"
    /\ \E k \in DOMAIN returns : returns[k].struct = built.arg
    /\ built.model.title = "R1"
    /\ built.model.data_struct.parameters["i_n"][3] = Num(1)
    /\ built.model.data_struct.data.curve_u # <<>>

----------------------------------------------------------------------------
(* The profile graph update_graph emits for a curve of a damage model *)
ProfileGraph(suffix, curve) ==
    [mode |-> "GRAPH_DATATYPE_PROFILE", title |-> title \o suffix,
     xval |-> Xs(curve), yval |-> Ys(curve)]

(* The last call was a completed get_evaluated_model on a damage model *)
DamageGraphed ==
    /\ call.op = "get_evaluated_model"
    /\ call.outcome = "done"
    /\ data_struct.type = "damage"

(* C28: for a model of type 'damage', update_graph emits one profile graph  *)
(* per non-empty evaluated curve, the upper curve first as ' - Damage', the *)
(* lower curve second as ' - Starting', and none for an empty curve; the    *)
(* graph title has the suffix ' - Damage curve' exactly when only the upper *)
(* curve is non-empty, ' - Starting curve' exactly when only the lower      *)
(* curve is non-empty, and is the plain title otherwise.                    *)
C28_DamageGraph ==
    DamageGraphed =>
        /\ Len(data_struct.graph_model) = 2
        /\ (curve_upper # <<>> /\ curve_lower # <<>>) =>
              /\ data_struct.graph_model[2]
                    = <<ProfileGraph(" - Damage", curve_upper),
                        ProfileGraph(" - Starting", curve_lower)>>
              /\ data_struct.graph_model[1] = title
        /\ (curve_upper # <<>> /\ curve_lower = <<>>) =>
              /\ data_struct.graph_model[2] = <<ProfileGraph(" - Damage", curve_upper)>>
              /\ data_struct.graph_model[1] = title \o " - Damage curve"
        /\ (curve_upper = <<>> /\ curve_lower # <<>>) =>
              /\ data_struct.graph_model[2] = <<ProfileGraph(" - Starting", curve_lower)>>
              /\ data_struct.graph_model[1] = title \o " - Starting curve"
        /\ (curve_upper = <<>> /\ curve_lower = <<>>) =>
              /\ data_struct.graph_model[2] = <<>>
              /\ data_struct.graph_model[1] = title

(* A damage model with an upper curve of three samples and a lower curve   *)
(* of two points was graphed: two profile graphs under the plain title     *)
C28_Witness ==
    /\ DamageGraphed
    /\ Len(curve_upper) = 3
    /\ Len(curve_lower) = 2
    /\ Len(data_struct.graph_model[2]) = 2
    /\ data_struct.graph_model[2][1].title = "R1 - Damage"
    /\ data_struct.graph_model[1] = "R1"

----------------------------------------------------------------------------
(* build_power_model.  The network is kept as its tables: a table is the   *)
(* sequence of its rows and the pandapower index of a row is its position  *)
(* less one.  Voltages are numbers of the curve library's kind.            *)

MaxPowerElems == 3

MaxPlaces == 3

(* Element interface: get_power_model(code) yields the sub-models of the   *)
(* element, (elementcode, local_nodes, model) each; an element has one     *)
(* sub-model on its local nodes, or none.  The voltages an element carries *)
(* are told apart by the element's position and the terminal.              *)
FieldVnKv(k1, k2, terminal) == Num(100 * k1 + 10 * (k2 + 1) + terminal)

get_power_model(element, elementcode, k1, k2) ==
    IF elementcode = "" THEN <<>>
    ELSE << [elementcode |-> elementcode,
             local_nodes |-> [j \in DOMAIN element |-> <<k1, k2, j - 1>>],
             k1 |-> k1, k2 |-> k2] >>

(* The nested loops "for k1, drawing_model / for k2, element / for slno,   *)
(* power_model_sub" as the sequence of visited sub-models in order         *)
PowerScanDrawing(drawing, codes, k1) ==
    Concat([k2 \in DOMAIN drawing |-> get_power_model(drawing[k2], codes[k2], k1, k2 - 1)])

PowerScan(drawings, codes) ==
    Concat([k1 \in DOMAIN drawings |-> PowerScanDrawing(drawings[k1], codes[k1], k1 - 1)])

(* What get_node left: recorded after each call *)
Snapshot(b) ==
    [b EXCEPT !.trace = Append(@, [power_nodes |-> b.power_nodes,
                                   power_nodes_inverted |-> b.power_nodes_inverted,
                                   buses |-> Len(b.power_model.bus)])]

(* bus = pp.create_bus(..., name=str(node), type='n', vn_kv=0.415) and the *)
(* two entries for it; the new bus has the next index                      *)
CreateBus(b, node) ==
    [b EXCEPT !.power_model.bus = Append(@, [name |-> node, type |-> "n",
                                             vn_kv |-> Q(415, 1000)]),
              !.power_nodes = Put(@, node, Len(b.power_model.bus)),
              !.power_nodes_inverted = Put(@, Len(b.power_model.bus), node),
              !.ret = Len(b.power_model.bus)]

(* Variant: a bus is created at every call *)
get_nodeAlwaysCreates(b, mapping, local_node) ==
    IF local_node \notin DOMAIN mapping THEN Snapshot([b EXCEPT !.ret = -1])
    ELSE Snapshot(CreateBus(b, mapping[local_node]))

(* get_node(local_node): the bus of the local node's global node, created  *)
(* when the global node has none; None, written -1, for a local node that  *)
(* is not mapped                                                           *)
get_node(b, mapping, local_node) ==
    IF local_node \notin DOMAIN mapping THEN Snapshot([b EXCEPT !.ret = -1])
    ELSE IF mapping[local_node] \notin DOMAIN b.power_nodes
    THEN Snapshot(CreateBus(b, mapping[local_node]))
    ELSE Snapshot([b EXCEPT !.ret = b.power_nodes[mapping[local_node]]])

(* element = pp.create_...(bus=...) and the two entries for it: a bus that *)
(* is None is not a bus of the network and the creation raises             *)
CreateRow(b, sub, buses, row) ==
    IF \E j \in DOMAIN buses : buses[j] < 0 THEN [b EXCEPT !.outcome = "UserWarning"]
    ELSE [b EXCEPT !.power_model[sub.elementcode] = Append(@, row),
                   !.power_elements =
                       Put(@, <<sub.k1, sub.k2>>,
                           <<sub.elementcode, Len(b.power_model[sub.elementcode])>>),
                   !.power_elements_inverted =
                       Put(@, <<sub.elementcode, Len(b.power_model[sub.elementcode])>>,
                           <<sub.k1, sub.k2>>)]

(* elementcode 'bus': name, vn_kv and type of the node's bus are written;  *)
(* an index of None matches no row                                         *)
SetBus(b, sub) ==
    IF b.ret < 0 THEN b
    ELSE [b EXCEPT !.power_model.bus[b.ret + 1] =
                       [name |-> <<"bus", sub.k1, sub.k2>>, type |-> "b",
                        vn_kv |-> FieldVnKv(sub.k1, sub.k2, 0)]]

OneBusRow(b, sub) ==
    CreateRow(b, sub, <<b.ret>>, [bus |-> b.ret])

TwoBusRow(b, sub, node0) ==
    CreateRow(b, sub, <<node0, b.ret>>,
              IF sub.elementcode = "trafo"
              THEN [hv_bus |-> node0, lv_bus |-> b.ret,
                    vn_hv_kv |-> FieldVnKv(sub.k1, sub.k2, 0),
                    vn_lv_kv |-> FieldVnKv(sub.k1, sub.k2, 2)]
              ELSE [from_bus |-> node0, to_bus |-> b.ret])

ThreeBusRow(b, sub, node0, node1) ==
    CreateRow(b, sub, <<node0, node1, b.ret>>,
              [hv_bus |-> node0, mv_bus |-> node1, lv_bus |-> b.ret,
               vn_hv_kv |-> FieldVnKv(sub.k1, sub.k2, 0),
               vn_mv_kv |-> FieldVnKv(sub.k1, sub.k2, 1),
               vn_lv_kv |-> FieldVnKv(sub.k1, sub.k2, 2)])

SecondNode(b, mapping, sub) ==
    TwoBusRow(get_node(b, mapping, sub.local_nodes[2]), sub, b.ret)

ThirdNode(b, mapping, sub, node0) ==
    ThreeBusRow(get_node(b, mapping, sub.local_nodes[3]), sub, node0, b.ret)

SecondOfThree(b, mapping, sub) ==
    ThirdNode(get_node(b, mapping, sub.local_nodes[2]), mapping, sub, b.ret)

(* Body of the loop over the sub-models, for one sub-model *)
CreateElement(b, mapping, sub) ==
    CASE sub.elementcode = "bus" -> SetBus(get_node(b, mapping, sub.local_nodes[1]), sub)
      [] sub.elementcode \in {"ext_grid", "gen"} ->
            OneBusRow(get_node(b, mapping, sub.local_nodes[1]), sub)
      [] sub.elementcode \in {"trafo", "line"} ->
            SecondNode(get_node(b, mapping, sub.local_nodes[1]), mapping, sub)
      [] sub.elementcode = "trafo3w" ->
            SecondOfThree(get_node(b, mapping, sub.local_nodes[1]), mapping, sub)
      [] OTHER -> b

RECURSIVE CreateElements(_, _, _)
CreateElements(b, mapping, scan) ==
    IF scan = <<>> \/ b.outcome # Running THEN b
    ELSE CreateElements(CreateElement(b, mapping, Head(scan)), mapping, Tail(scan))

(* mg_no_trafos: the buses joined by the lines, transformers left out; a   *)
(* voltage zone is a connected component of it                             *)
create_nxgraph(net) ==
    [nodes |-> [j \in DOMAIN net.bus |-> j - 1],
     edges |-> {<<net.line[j].from_bus, net.line[j].to_bus>> : j \in DOMAIN net.line}]

voltage_zones(net) == connected_components(create_nxgraph(net), 1, {})

(* The buses of the zones that hold bus *)
ZoneOf(zones, bus) == UNION {zones[z] : z \in {y \in DOMAIN zones : bus \in zones[y]}}

(* Body of "for power_node in zone" over a whole zone, the nodes of the    *)
(* zone being its buses through power_nodes_inverted                       *)
WriteZone(b, zone, nodes, vn_kv, source) ==
    [b EXCEPT !.power_model.bus =
                  [j \in DOMAIN @ |->
                      IF (j - 1) \in zone
                         /\ b.power_nodes_inverted[j - 1] \notin DOMAIN b.voltage_updated_from
                      THEN [@[j] EXCEPT !.vn_kv = vn_kv] ELSE @[j]],
              !.writes =
                  [p \in (DOMAIN @) \cup zone |->
                      IF p \in zone
                         /\ b.power_nodes_inverted[p] \notin DOMAIN b.voltage_updated_from
                      THEN <<[vn_kv |-> vn_kv, source |-> source]>>
                      ELSE @[p]],
              !.voltage_updated_from =
                  [n \in (DOMAIN @) \cup nodes |->
                      IF n \notin nodes THEN @[n]
                      ELSE IF n \in DOMAIN @ THEN Append(@[n], source)
                      ELSE <<source>>]]

(* Variant: every source that reaches a node writes its voltage *)
WriteZoneOverwrite(b, zone, nodes, vn_kv, source) ==
    [b EXCEPT !.power_model.bus =
                  [j \in DOMAIN @ |->
                      IF (j - 1) \in zone THEN [@[j] EXCEPT !.vn_kv = vn_kv] ELSE @[j]],
              !.writes =
                  [p \in (DOMAIN @) \cup zone |->
                      IF p \notin zone THEN @[p]
                      ELSE IF p \in DOMAIN @
                      THEN Append(@[p], [vn_kv |-> vn_kv, source |-> source])
                      ELSE <<[vn_kv |-> vn_kv, source |-> source]>>],
              !.voltage_updated_from =
                  [n \in (DOMAIN @) \cup nodes |->
                      IF n \notin nodes THEN @[n]
                      ELSE IF n \in DOMAIN @ THEN Append(@[n], source)
                      ELSE <<source>>]]

(* Variant of set_voltage on WriteZoneOverwrite *)
set_voltageOverwrite(b, zones, bus, vn_kv, source) ==
    WriteZoneOverwrite(b, ZoneOf(zones, bus),
                       {b.power_nodes_inverted[p] : p \in ZoneOf(zones, bus)}, vn_kv, source)

(* set_voltage(bus, vn_kv, k1, k2) *)
set_voltage(b, zones, bus, vn_kv, source) ==
    WriteZone(b, ZoneOf(zones, bus),
              {b.power_nodes_inverted[p] : p \in ZoneOf(zones, bus)}, vn_kv, source)

(* The calls of set_voltage in the order of the four loops: external       *)
(* grids, generators, transformers (lv, hv), three-winding transformers    *)
(* (lv, mv, hv); each with the element the row was created for             *)
SourceOf(b, elementcode, index) == b.power_elements_inverted[<<elementcode, index>>]

VoltageCalls(b) ==
    Concat([j \in DOMAIN b.power_model.ext_grid |->
               << [bus |-> b.power_model.ext_grid[j].bus,
                   vn_kv |-> FieldVnKv(SourceOf(b, "ext_grid", j - 1)[1],
                                       SourceOf(b, "ext_grid", j - 1)[2], 0),
                   source |-> SourceOf(b, "ext_grid", j - 1)] >>])
    \o
    Concat([j \in DOMAIN b.power_model.gen |->
               << [bus |-> b.power_model.gen[j].bus,
                   vn_kv |-> FieldVnKv(SourceOf(b, "gen", j - 1)[1],
                                       SourceOf(b, "gen", j - 1)[2], 0),
                   source |-> SourceOf(b, "gen", j - 1)] >>])
    \o
    Concat([j \in DOMAIN b.power_model.trafo |->
               << [bus |-> b.power_model.trafo[j].lv_bus,
                   vn_kv |-> b.power_model.trafo[j].vn_lv_kv,
                   source |-> SourceOf(b, "trafo", j - 1)],
                  [bus |-> b.power_model.trafo[j].hv_bus,
                   vn_kv |-> b.power_model.trafo[j].vn_hv_kv,
                   source |-> SourceOf(b, "trafo", j - 1)] >>])
    \o
    Concat([j \in DOMAIN b.power_model.trafo3w |->
               << [bus |-> b.power_model.trafo3w[j].lv_bus,
                   vn_kv |-> b.power_model.trafo3w[j].vn_lv_kv,
                   source |-> SourceOf(b, "trafo3w", j - 1)],
                  [bus |-> b.power_model.trafo3w[j].mv_bus,
                   vn_kv |-> b.power_model.trafo3w[j].vn_mv_kv,
                   source |-> SourceOf(b, "trafo3w", j - 1)],
                  [bus |-> b.power_model.trafo3w[j].hv_bus,
                   vn_kv |-> b.power_model.trafo3w[j].vn_hv_kv,
                   source |-> SourceOf(b, "trafo3w", j - 1)] >>])

RECURSIVE SetVoltages(_, _, _)
SetVoltages(b, zones, calls) ==
    IF calls = <<>> THEN b
    ELSE SetVoltages(set_voltage(b, zones, Head(calls).bus, Head(calls).vn_kv,
                                 Head(calls).source),
                     zones, Tail(calls))

(* Update node voltage in results *)
UpdateNodeResults(b) ==
    [b EXCEPT !.node_results =
        [node \in DOMAIN b.power_nodes |-> b.power_model.bus[b.power_nodes[node] + 1].vn_kv]]

(* The part of the call after the elements are created *)
UpdateVoltages(b) ==
    IF b.outcome # Running THEN b
    ELSE [UpdateNodeResults(SetVoltages(b, voltage_zones(b.power_model), VoltageCalls(b)))
             EXCEPT !.outcome = "done"]

(* The whole call on the node mapping and the sub-models of the elements *)
BuildPowerModel(mapping, scan) ==
    UpdateVoltages(
        CreateElements([power_model |-> create_empty_network,
                        power_nodes |-> EmptyMap,
                        power_nodes_inverted |-> EmptyMap,
                        power_elements |-> EmptyMap,
                        power_elements_inverted |-> EmptyMap,
                        voltage_updated_from |-> EmptyMap,
                        node_results |-> EmptyMap,
                        trace |-> <<>>, writes |-> EmptyMap,
                        ret |-> -1, outcome |-> Running],
                       mapping, scan))

StorePower(b) ==
    /\ power_model' = b.power_model
    /\ power_nodes' = b.power_nodes
    /\ power_nodes_inverted' = b.power_nodes_inverted
    /\ power_elements' = b.power_elements
    /\ power_elements_inverted' = b.power_elements_inverted
    /\ voltage_updated_from' = b.voltage_updated_from
    /\ node_results' = b.node_results
    /\ build' = [outcome |-> b.outcome, trace |-> b.trace, writes |-> b.writes]

(* build_power_model, called on the results of a completed setup_base_model *)
build_power_model ==
    /\ Current
    /\ outcome = "done"
    /\ StorePower(BuildPowerModel(node_mapping, PowerScan(drawing_models, elementcodes)))
    /\ UNCHANGED <<drawing_models, port_mapping, node_mapping, global_nodes,
                   virtual_global_nodes, duplicate_ports_list, duplicate_ports_list_comb,
                   pass2_nodes, outcome, history, elementcodes, pvars, lvars>>

(* The elements the power models are built from: a code and one port per   *)
(* local node; a line joins two places, a transformer has its windings    *)
(* at different places, a three-winding transformer at three places        *)
PowerElements ==
    {[elementcode |-> c, nodes |-> << << <<x, 0>> >> >>] :
        c \in {"ext_grid", "gen", "bus"}, x \in 0..(MaxPlaces - 1)}
    \cup
    {[elementcode |-> "line", nodes |-> << << <<xy[1], 0>> >>, << <<xy[2], 0>> >> >>] :
        xy \in {q \in (0..(MaxPlaces - 1)) \X (0..(MaxPlaces - 1)) : q[1] < q[2]}}
    \cup
    {[elementcode |-> "trafo", nodes |-> << << <<xy[1], 0>> >>, << <<xy[2], 0>> >> >>] :
        xy \in {q \in (0..(MaxPlaces - 1)) \X (0..(MaxPlaces - 1)) : q[1] # q[2]}}
    \cup
    {[elementcode |-> "trafo3w",
      nodes |-> << << <<xyz[1], 0>> >>, << <<xyz[2], 0>> >>, << <<xyz[3], 0>> >> >>] :
        xyz \in {q \in (0..(MaxPlaces - 1)) \X (0..(MaxPlaces - 1)) \X (0..(MaxPlaces - 1)) :
                   q[1] < q[2] /\ q[2] < q[3]}}

InitPower ==
    /\ NoProtection
    /\ \E es \in SeqsUpTo(PowerElements, MaxPowerElems) :
          /\ drawing_models = << [k2 \in DOMAIN es |-> es[k2].nodes] >>
          /\ elementcodes = << [k2 \in DOMAIN es |-> es[k2].elementcode] >>
    /\ PowerVariablesNew
    /\ port_mapping = EmptyMap
    /\ node_mapping = EmptyMap
    /\ global_nodes = {}
    /\ virtual_global_nodes = {}
    /\ duplicate_ports_list = <<>>
    /\ duplicate_ports_list_comb = <<>>
    /\ pass2_nodes = <<>>
    /\ outcome = "new"
    /\ history = "new"

NextPower == setup_base_model \/ build_power_model

SpecPower == InitPower /\ [][NextPower]_vars

----------------------------------------------------------------------------
(* Vocabulary of the power model properties *)

(* pn and pni are maps inverse to each other *)
MutuallyInverse(pn, pni) ==
    /\ DOMAIN pni = Range(pn)
    /\ DOMAIN pn = Range(pni)
    /\ \A n \in DOMAIN pn : pni[pn[n]] = n
    /\ \A p \in DOMAIN pni : pn[pni[p]] = p

(* The global nodes of the local nodes the power models refer to *)
ReferencedNodes ==
    {node_mapping[ln] :
        ln \in UNION {SetOf(PowerScan(drawing_models, elementcodes)[i].local_nodes) :
                         i \in DOMAIN PowerScan(drawing_models, elementcodes)}}

(* C29: each time get_node returns during build_power_model, and after the  *)
(* call, power_nodes and power_nodes_inverted are inverse to each other and *)
(* the network has one bus per entry; after the call the buses are those of *)
(* the global nodes the power elements refer to, one each.                  *)
C29_OneBusPerNode ==
    build.outcome # "new" =>
        /\ \A t \in DOMAIN build.trace :
              /\ MutuallyInverse(build.trace[t].power_nodes,
                                 build.trace[t].power_nodes_inverted)
              /\ build.trace[t].buses = Cardinality(DOMAIN build.trace[t].power_nodes)
        /\ MutuallyInverse(power_nodes, power_nodes_inverted)
        /\ DOMAIN power_nodes = ReferencedNodes
        /\ DOMAIN power_nodes_inverted = 0..(Len(power_model.bus) - 1)
        /\ Len(power_model.bus) = Cardinality(ReferencedNodes)

(* Three elements with five local nodes between them were built into a     *)
(* network of two buses                                                    *)
C29_Witness ==
    /\ build.outcome = "done"
    /\ Len(build.trace) = 5
    /\ Len(power_model.bus) = 2
    /\ Cardinality(ReferencedNodes) = 2

(* Two buses are in one voltage zone: a chain of lines joins them *)
SameZone(p, q) ==
    q \in GroupClosure({p}, {{power_model.line[j].from_bus, power_model.line[j].to_bus} :
                                j \in DOMAIN power_model.line})

(* Place of a kind of source in the processing order *)
KindRank(elementcode) ==
    CASE elementcode = "ext_grid" -> 1
      [] elementcode = "gen" -> 2
      [] elementcode = "trafo" -> 3
      [] elementcode = "trafo3w" -> 4

(* The terminals of the sources: the bus, the voltage of the terminal, the *)
(* element, and the place of the element in the processing order           *)
Terminal(elementcode, j, bus, vn_kv) ==
    [bus |-> bus, vn_kv |-> vn_kv,
     source |-> power_elements_inverted[<<elementcode, j - 1>>],
     rank |-> <<KindRank(elementcode), j>>]

Terminals ==
    {Terminal("ext_grid", j, power_model.ext_grid[j].bus,
              FieldVnKv(power_elements_inverted[<<"ext_grid", j - 1>>][1],
                        power_elements_inverted[<<"ext_grid", j - 1>>][2], 0)) :
        j \in DOMAIN power_model.ext_grid}
    \cup
    {Terminal("gen", j, power_model.gen[j].bus,
              FieldVnKv(power_elements_inverted[<<"gen", j - 1>>][1],
                        power_elements_inverted[<<"gen", j - 1>>][2], 0)) :
        j \in DOMAIN power_model.gen}
    \cup
    UNION {{Terminal("trafo", j, power_model.trafo[j].lv_bus, power_model.trafo[j].vn_lv_kv),
            Terminal("trafo", j, power_model.trafo[j].hv_bus, power_model.trafo[j].vn_hv_kv)} :
              j \in DOMAIN power_model.trafo}
    \cup
    UNION {{Terminal("trafo3w", j, power_model.trafo3w[j].lv_bus,
                     power_model.trafo3w[j].vn_lv_kv),
            Terminal("trafo3w", j, power_model.trafo3w[j].mv_bus,
                     power_model.trafo3w[j].vn_mv_kv),
            Terminal("trafo3w", j, power_model.trafo3w[j].hv_bus,
                     power_model.trafo3w[j].vn_hv_kv)} :
              j \in DOMAIN power_model.trafo3w}

RankLeq(a, b) == a[1] < b[1] \/ (a[1] = b[1] /\ a[2] <= b[2])

(* The terminals whose voltage zone holds bus p, and the first of them in  *)
(* the processing order                                                    *)
Reaching(p) == {t \in Terminals : SameZone(t.bus, p)}

FirstReaching(p) == {t \in Reaching(p) : \A u \in Reaching(p) : RankLeq(t.rank, u.rank)}

RankOf(source) == <<KindRank(power_elements[source][1]), power_elements[source][2] + 1>>

(* C30: after build_power_model, set_voltage has written the voltage of a   *)
(* bus at most once: a bus no source reaches was not written and is not in  *)
(* voltage_updated_from; a bus that sources reach was written once, by the  *)
(* first source in the order external grids, generators, transformers,      *)
(* three-winding transformers whose voltage zone holds it, it has that      *)
(* source's voltage, and voltage_updated_from lists that source first and   *)
(* then one entry for every later terminal reaching the bus, in order.      *)
C30_FirstSourceSetsVoltage ==
    build.outcome = "done" =>
        \A p \in DOMAIN power_nodes_inverted :
            IF Reaching(p) = {}
            THEN /\ p \notin DOMAIN build.writes
                 /\ power_nodes_inverted[p] \notin DOMAIN voltage_updated_from
            ELSE /\ p \in DOMAIN build.writes
                 /\ Len(build.writes[p]) = 1
                 /\ \E t \in FirstReaching(p) :
                       /\ build.writes[p][1] = [vn_kv |-> t.vn_kv, source |-> t.source]
                       /\ power_model.bus[p + 1].vn_kv = t.vn_kv
                       /\ node_results[power_nodes_inverted[p]] = t.vn_kv
                       /\ voltage_updated_from[power_nodes_inverted[p]][1] = t.source
                 /\ Len(voltage_updated_from[power_nodes_inverted[p]])
                       = Cardinality(Reaching(p))
                 /\ \A a, c \in DOMAIN voltage_updated_from[power_nodes_inverted[p]] :
                       a < c => RankLeq(RankOf(voltage_updated_from[power_nodes_inverted[p]][a]),
                                        RankOf(voltage_updated_from[power_nodes_inverted[p]][c]))

(* A generator drawn before an external grid, both in the zone of one bus: *)
(* the bus has the voltage of the grid and the generator is listed second  *)
C30_Witness ==
    /\ build.outcome = "done"
    /\ Len(elementcodes[1]) >= 2
    /\ elementcodes[1][1] = "gen"
    /\ elementcodes[1][2] = "ext_grid"
    /\ \E p \in DOMAIN build.writes :
          /\ power_nodes_inverted[p] \in DOMAIN voltage_updated_from
          /\ voltage_updated_from[power_nodes_inverted[p]] = << <<0, 1>>, <<0, 0>> >>
          /\ power_model.bus[p + 1].vn_kv = FieldVnKv(0, 1, 0)
          /\ Len(build.writes[p]) = 1

====
